---- MODULE Spec2Model ----
(***************************************************************************)
(* Staged research pipeline of agent_researcher: the LangGraph workflow   *)
(* (backend/research/graph/workflow.py), its stage functions               *)
(* (backend/research/graph/nodes.py), the oracle-facing services           *)
(* (backend/research/services/*.py) and the caller run_research_sync       *)
(* (backend/research/views.py); the project side: iterations, their start *)
(* requests (backend/projects/models.py, views.py) and the context        *)
(* accumulator (backend/projects/services/context.py).                    *)
(*                                                                         *)
(* Encoding of Python values.  An Optional field of the workflow state is  *)
(* a tagged record: Absent (key not in the dict), None, Dict(r), List(q),  *)
(* Str(s).  A text built with an f-string is a sequence of chunks, so the  *)
(* empty string is <<>>.  A float is an integer; a JSON number is Num(n)   *)
(* and a JSON value that float() rejects is NotNum.                        *)
(***************************************************************************)
EXTENDS Integers, Sequences, FiniteSets, TLC

VARIABLES
    api_key,      \* settings.GEMINI_API_KEY is configured
    job,          \* the ResearchJob row
    db,           \* the payload tables of the job
    mem,          \* number of memory captures done for the job
    state,        \* the ResearchState threaded through the stages
    pc,           \* position of the run / of the caller
    trace,        \* stage calls made so far, in order
    project,      \* the Project row with its work products and annotations
    iterations,   \* the Iteration rows of the project, in insertion order
    jobs,         \* the ResearchJob rows created by start requests
    req,          \* the requests received on the project, each with its locals
    bundle        \* accumulator and comparator calls made so far, in order

vars == <<api_key, job, db, mem, state, pc, trace,
          project, iterations, jobs, req, bundle>>

\* the pipeline's variables and the project's
runvars == <<api_key, job, db, mem, state, pc, trace>>
projvars == <<project, iterations, jobs, req, bundle>>

\* ---------------------------------------------------------------- bounds
MaxCalls == 1
MaxFinalize == 2
MaxRequests == 3
MaxIterations == 3
MaxContextCalls == 1
MaxBuilds == 2
MaxCompared == 2
MaxCompares == 2

\* ------------------------------------------------------- Python values
None == [k |-> "none"]
Absent == [k |-> "absent"]
Dict(r) == [k |-> "dict", v |-> r]
List(q) == [k |-> "list", v |-> q]
Str(s) == [k |-> "str", v |-> s]
IntVal(n) == [k |-> "int", v |-> n]
EmptyDict == <<>>

Num(n) == [num |-> n]
NotNum == [str |-> "high"]
IsNum(x) == "num" \in DOMAIN x

\* bool(x) of a tagged value
Truthy(x) ==
    CASE x.k = "none" -> FALSE
      [] x.k = "absent" -> FALSE
      [] x.k = "dict" -> DOMAIN x.v # {}
      [] x.k = "list" -> Len(x.v) > 0
      [] x.k = "str" -> x.v # ""
      [] x.k = "int" -> x.v # 0

\* state.get(key): a missing key reads as None
StateGet(x) == IF x = Absent THEN None ELSE x

\* state.get(key, default): a missing key reads as the default, a None stays None
StateGetD(x, d) == IF x = Absent THEN d ELSE x

\* d.get(key, default) on a JSON object
JGet(d, key, def) == IF key \in DOMAIN d THEN d[key] ELSE def

\* ------------------------------------------------------ oracle responses
Fence == [t |-> "fence"]
Junk == [t |-> "junk"]
Blank == [t |-> "blank"]
J(v) == [t |-> "json", v |-> v]
Word(w) == [t |-> "word", w |-> w]

Raise(m) == [kind |-> "raise", msg |-> m]
NullText == [kind |-> "null"]
Text(lines) == [kind |-> "text", lines |-> lines]

RECURSIVE LStrip(_)
LStrip(q) == IF q # <<>> /\ Head(q) = Blank THEN LStrip(Tail(q)) ELSE q

RECURSIVE RStrip(_)
RStrip(q) ==
    IF q # <<>> /\ q[Len(q)] = Blank THEN RStrip(SubSeq(q, 1, Len(q) - 1)) ELSE q

\* str.strip()
Strip(q) == RStrip(LStrip(q))

\* if text.startswith('```'): text = '\n'.join(text.split('\n')[1:-1])
StripFence(q) ==
    IF q # <<>> /\ q[1] = Fence THEN SubSeq(q, 2, Len(q) - 1) ELSE q

IsNonBlank(l) == l # Blank

\* json.loads: the text is one JSON value, white space around it allowed
json_loads(q) ==
    LET nb == SelectSeq(q, IsNonBlank)
    IN  IF Len(nb) = 1 /\ nb[1].t = "json"
        THEN [ok |-> TRUE, v |-> nb[1].v]
        ELSE [ok |-> FALSE]

\* strip, drop the fence, parse
Extract(lines) == json_loads(StripFence(Strip(lines)))

AttributeErrorMsg == "object has no attribute"
TypeErrorMsg == "unexpected keyword argument"
ValueErrorMsg == "could not convert string to float"

\* ------------------------------------------------------------- services
\* a service call either raises or returns a value
Raised(m) == [raised |-> TRUE, msg |-> m]
Returned(x) == [raised |-> FALSE, val |-> x]

\* ResearchReportData: the modelled fields and their dataclass defaults
ReportFields ==
    {"company_overview", "website", "pain_points", "opportunities", "talking_points"}

ResearchReportData(d) ==
    [company_overview |-> JGet(d, "company_overview", <<>>),
     website |-> JGet(d, "website", ""),
     pain_points |-> JGet(d, "pain_points", <<>>),
     opportunities |-> JGet(d, "opportunities", <<>>),
     talking_points |-> JGet(d, "talking_points", <<>>)]


\* mutant of conduct_deep_research: an exception of the oracle call is turned
\* into the fallback report, as the other services do
conduct_deep_research_swallow(resp) ==
    LET fallback == ResearchReportData(
            [company_overview |->
                <<"Research completed but structured parsing failed. Raw output:",
                  "<response.text>">>])
    IN  CASE resp.kind = "raise" -> Returned(fallback)
          [] resp.kind = "null" -> Raised(AttributeErrorMsg)
          [] resp.kind = "text" ->
                LET p == Extract(resp.lines)
                IN  IF ~p.ok THEN Returned(fallback)
                    ELSE IF p.v.k # "dict" THEN Raised(TypeErrorMsg)
                    ELSE IF ~(DOMAIN p.v.v \subseteq ReportFields) THEN Raised(TypeErrorMsg)
                    ELSE Returned(ResearchReportData(p.v.v))

\* GeminiClient.conduct_deep_research: a JSON decode error gives the fallback
\* report, every other exception is raised again
conduct_deep_research(resp) ==
    CASE resp.kind = "raise" -> Raised(resp.msg)
      [] resp.kind = "null" -> Raised(AttributeErrorMsg)
      [] resp.kind = "text" ->
            LET p == Extract(resp.lines)
            IN  IF ~p.ok
                THEN Returned(ResearchReportData(
                        [company_overview |->
                            <<"Research completed but structured parsing failed. Raw output:",
                              "<response.text>">>]))
                ELSE IF p.v.k # "dict" THEN Raised(TypeErrorMsg)
                ELSE IF ~(DOMAIN p.v.v \subseteq ReportFields) THEN Raised(TypeErrorMsg)
                ELSE Returned(ResearchReportData(p.v.v))

valid_verticals ==
    {"healthcare", "finance", "retail", "manufacturing", "technology",
     "energy", "telecommunications", "media_entertainment", "transportation",
     "real_estate", "professional_services", "education", "government",
     "hospitality", "agriculture", "construction", "nonprofit", "other"}

\* str.lower() on the words the model uses
Lower(w) == IF w = "Healthcare" THEN "healthcare" ELSE w

\* GeminiClient.classify_vertical: never raises
gemini_classify_vertical(resp) ==
    CASE resp.kind = "raise" -> "other"
      [] resp.kind = "null" -> "other"
      [] resp.kind = "text" ->
            LET q == Strip(resp.lines)
            IN  IF Len(q) = 1 /\ q[1].t = "word" /\ Lower(q[1].w) \in valid_verticals
                THEN Lower(q[1].w)
                ELSE "other"

\* VerticalClassifier.classify with use_llm=True and a client: the keyword
\* result is computed but the LLM result is the one returned
VerticalClassifier_classify(resp) == gemini_classify_vertical(resp)

\* GeminiClient.generate_text: the text, or the exception raised again
generate_text(resp) ==
    IF resp.kind = "raise" THEN Raised(resp.msg) ELSE Returned(resp)

IsDict(x) == x.k = "dict"

CompetitorCaseStudyData(cs) ==
    [competitor_name |-> JGet(cs.v, "competitor_name", ""),
     case_study_title |-> JGet(cs.v, "case_study_title", ""),
     relevance_score |-> JGet(cs.v, "relevance_score", Num(0)).num]

\* CompetitorSearchService.search_competitor_case_studies: [] on any failure
search_competitor_case_studies(resp) ==
    LET g == generate_text(resp)
    IN  IF g.raised \/ g.val.kind = "null" THEN <<>>
        ELSE LET p == Extract(g.val.lines)
             IN  IF ~p.ok THEN <<>>
                 ELSE IF ~IsDict(p.v) THEN <<>>
                 ELSE LET css == JGet(p.v.v, "case_studies", <<>>)
                      IN  IF \E i \in 1..Len(css) :
                                 \/ ~IsDict(css[i])
                                 \/ ~IsNum(JGet(css[i].v, "relevance_score", Num(0)))
                          THEN <<>>
                          ELSE [i \in 1..Len(css) |-> CompetitorCaseStudyData(css[i])]

GapAnalysisData(d) ==
    [technology_gaps |-> JGet(d, "technology_gaps", <<>>),
     capability_gaps |-> JGet(d, "capability_gaps", <<>>),
     process_gaps |-> JGet(d, "process_gaps", <<>>),
     recommendations |-> JGet(d, "recommendations", <<>>),
     priority_areas |-> JGet(d, "priority_areas", <<>>),
     confidence_score |-> JGet(d, "confidence_score", Num(0)).num,
     analysis_notes |-> JGet(d, "analysis_notes", <<>>)]


\* mutant of GapFallback: the fallback record does not name the failure
GapFallback_nonotes(notes) ==
    [technology_gaps |-> <<>>, capability_gaps |-> <<>>, process_gaps |-> <<>>,
     recommendations |-> <<>>, priority_areas |-> <<>>, confidence_score |-> 0,
     analysis_notes |-> <<>>]

GapFallback(notes) ==
    [technology_gaps |-> <<>>, capability_gaps |-> <<>>, process_gaps |-> <<>>,
     recommendations |-> <<>>, priority_areas |-> <<>>, confidence_score |-> 0,
     analysis_notes |-> notes]

\* GapAnalysisService.analyze_gaps: a fallback record on any failure, never raises
gap_service_analyze_gaps(resp) ==
    LET g == generate_text(resp)
    IN  IF g.raised THEN GapFallback(<<"Analysis failed: ", g.msg>>)
        ELSE IF g.val.kind = "null" THEN GapFallback(<<"Analysis failed: ", AttributeErrorMsg>>)
        ELSE LET p == Extract(g.val.lines)
             IN  IF ~p.ok
                 THEN GapFallback(<<"Analysis parsing failed. Raw output: ", "<response>">>)
                 ELSE IF ~IsDict(p.v)
                 THEN GapFallback(<<"Analysis failed: ", AttributeErrorMsg>>)
                 ELSE IF ~IsNum(JGet(p.v.v, "confidence_score", Num(0)))
                 THEN GapFallback(<<"Analysis failed: ", ValueErrorMsg>>)
                 ELSE GapAnalysisData(p.v.v)

EmployeeSentiment(es) ==
    [overall_rating |-> JGet(es, "overall_rating", Num(0)).num,
     trend |-> JGet(es, "trend", "stable")]

InternalOpsData(d) ==
    [employee_sentiment |-> EmployeeSentiment(JGet(d, "employee_sentiment", Dict(EmptyDict)).v),
     key_insights |-> JGet(d, "key_insights", <<>>),
     confidence_score |-> JGet(d, "confidence_score", Num(0)).num,
     data_freshness |-> JGet(d, "data_freshness", "unknown"),
     analysis_notes |-> JGet(d, "analysis_notes", <<>>)]

\* mutant of OpsFallback: the fallback record carries a made-up insight
OpsFallback_stale(notes) ==
    InternalOpsData([analysis_notes |-> notes, key_insights |-> <<"no data">>])

OpsFallback(notes) == InternalOpsData([analysis_notes |-> notes])

\* InternalOpsService.research_internal_ops: a fallback record on any failure
service_research_internal_ops(resp) ==
    LET g == generate_text(resp)
    IN  IF g.raised THEN OpsFallback(<<"Research failed: ", g.msg>>)
        ELSE IF g.val.kind = "null" THEN OpsFallback(<<"Research failed: ", AttributeErrorMsg>>)
        ELSE LET p == Extract(g.val.lines)
             IN  IF ~p.ok
                 THEN OpsFallback(<<"Analysis parsing failed: ", "<JSONDecodeError>">>)
                 ELSE IF ~IsDict(p.v)
                 THEN OpsFallback(<<"Research failed: ", AttributeErrorMsg>>)
                 ELSE LET es == JGet(p.v.v, "employee_sentiment", Dict(EmptyDict))
                      IN  IF ~IsDict(es)
                          THEN OpsFallback(<<"Research failed: ", AttributeErrorMsg>>)
                          ELSE IF \/ ~IsNum(JGet(es.v, "overall_rating", Num(0)))
                                  \/ ~IsNum(JGet(p.v.v, "confidence_score", Num(0)))
                          THEN OpsFallback(<<"Research failed: ", ValueErrorMsg>>)
                          ELSE InternalOpsData(p.v.v)

GapCorrelation(c) ==
    [gap_type |-> JGet(c.v, "gap_type", ""),
     evidence_type |-> JGet(c.v, "evidence_type", "neutral"),
     confidence |-> JGet(c.v, "confidence", Num(0)).num]

\* GapCorrelationService.correlate_gaps followed by correlations_to_dict
correlate_gaps(resp) ==
    LET g == generate_text(resp)
    IN  IF g.raised \/ g.val.kind = "null" THEN <<>>
        ELSE LET p == Extract(g.val.lines)
             IN  IF ~p.ok THEN <<>>
                 ELSE IF ~IsDict(p.v) THEN <<>>
                 ELSE LET cs == JGet(p.v.v, "gap_correlations", <<>>)
                      IN  IF \E i \in 1..Len(cs) :
                                 \/ ~IsDict(cs[i])
                                 \/ ~IsNum(JGet(cs[i].v, "confidence", Num(0)))
                          THEN <<>>
                          ELSE [i \in 1..Len(cs) |-> GapCorrelation(cs[i])]

\* _format_research_result: one section per non-empty part of the report
_format_research_result(report) ==
    (IF report.company_overview # <<>> THEN <<"## Company Overview">> ELSE <<>>)
    \o (IF report.website # "" THEN <<"## Company Details">> ELSE <<>>)
    \o (IF report.pain_points # <<>> THEN <<"## Pain Points">> ELSE <<>>)
    \o (IF report.opportunities # <<>> THEN <<"## Opportunities">> ELSE <<>>)
    \o (IF report.talking_points # <<>> THEN <<"## Recommended Talking Points">> ELSE <<>>)

\* ------------------------------------------------------ stage functions
\* a stage call returns the new state and the number of oracle calls it made
Res(st, n) == [st |-> st, calls |-> n]

\* report = state.get('research_report', {})
ReportOf(s) == StateGetD(s.research_report, Dict(EmptyDict))


\* mutant of validate_input: the credential is not checked
validate_input_nokey(s, key) ==
    IF s.client_name = ""
    THEN Res([s EXCEPT !.status = "failed", !.error = "Client name is required"], 0)
    ELSE Res([s EXCEPT !.status = "researching"], 0)

validate_input(s, key) ==
    IF s.client_name = ""
    THEN Res([s EXCEPT !.status = "failed", !.error = "Client name is required"], 0)
    ELSE IF ~key
    THEN Res([s EXCEPT !.status = "failed", !.error = "Gemini API key is not configured"], 0)
    ELSE Res([s EXCEPT !.status = "researching"], 0)

\* mutant of conduct_research: a successful research also resets the vertical
conduct_research_resets(s, resp) ==
    IF s.status = "failed" THEN Res(s, 0)
    ELSE LET r == conduct_deep_research(resp)
         IN  IF r.raised
             THEN Res([s EXCEPT !.status = "failed", !.error = r.msg], 1)
             ELSE Res([s EXCEPT !.status = "classifying",
                                !.result = _format_research_result(r.val),
                                !.research_report = Dict(r.val),
                                !.vertical = None], 1)

conduct_research(s, resp) ==
    IF s.status = "failed" THEN Res(s, 0)
    ELSE LET r == conduct_deep_research(resp)
         IN  IF r.raised
             THEN Res([s EXCEPT !.status = "failed", !.error = r.msg], 1)
             ELSE Res([s EXCEPT !.status = "classifying",
                                !.result = _format_research_result(r.val),
                                !.research_report = Dict(r.val)], 1)


\* mutant of classify_vertical: a raising oracle call fails the run
classify_vertical_fatal(s, resp) ==
    IF s.status = "failed" THEN Res(s, 0)
    ELSE IF ~IsDict(ReportOf(s))
    THEN Res([s EXCEPT !.status = "competitor_search", !.vertical = Str("other")], 0)
    ELSE IF resp.kind = "raise"
    THEN Res([s EXCEPT !.status = "failed", !.error = resp.msg], 1)
    ELSE Res([s EXCEPT !.status = "competitor_search",
                       !.vertical = Str(VerticalClassifier_classify(resp))], 1)

classify_vertical(s, resp) ==
    IF s.status = "failed" THEN Res(s, 0)
    ELSE IF ~IsDict(ReportOf(s))
    THEN Res([s EXCEPT !.status = "competitor_search", !.vertical = Str("other")], 0)
    ELSE Res([s EXCEPT !.status = "competitor_search",
                       !.vertical = Str(VerticalClassifier_classify(resp))], 1)

\* mutant of search_competitors: the stage puts status back to classifying
search_competitors_rewinds(s, resp) ==
    IF s.status = "failed" THEN Res(s, 0)
    ELSE IF ~IsDict(ReportOf(s))
    THEN Res([s EXCEPT !.status = "classifying", !.competitor_case_studies = List(<<>>)], 0)
    ELSE Res([s EXCEPT !.status = "classifying",
                       !.competitor_case_studies =
                            List(search_competitor_case_studies(resp))], 1)

search_competitors(s, resp) ==
    IF s.status = "failed" THEN Res(s, 0)
    ELSE IF ~IsDict(ReportOf(s))
    THEN Res([s EXCEPT !.status = "gap_analysis", !.competitor_case_studies = List(<<>>)], 0)
    ELSE Res([s EXCEPT !.status = "gap_analysis",
                       !.competitor_case_studies =
                            List(search_competitor_case_studies(resp))], 1)


\* mutant of analyze_gaps: the cause of a raising oracle call is put in error
analyze_gaps_witherror(s, resp) ==
    IF s.status = "failed" THEN Res(s, 0)
    ELSE IF ~IsDict(ReportOf(s))
    THEN Res([s EXCEPT !.status = "completed", !.gap_analysis = None], 0)
    ELSE Res([s EXCEPT !.status = "completed",
                       !.error = IF resp.kind = "raise" THEN "gap analysis failed" ELSE @,
                       !.gap_analysis = Dict(gap_service_analyze_gaps(resp))], 1)

analyze_gaps(s, resp) ==
    IF s.status = "failed" THEN Res(s, 0)
    ELSE IF ~IsDict(ReportOf(s))
    THEN Res([s EXCEPT !.status = "completed", !.gap_analysis = None], 0)
    ELSE Res([s EXCEPT !.status = "completed",
                       !.gap_analysis = Dict(gap_service_analyze_gaps(resp))], 1)

research_internal_ops(s, resp) ==
    IF s.status = "failed" THEN Res(s, 0)
    ELSE IF ~IsDict(ReportOf(s))
    THEN Res([s EXCEPT !.internal_ops = None], 0)
    ELSE Res([s EXCEPT !.internal_ops = Dict(service_research_internal_ops(resp))], 1)


\* mutant of correlate_internal_ops: the skip branch leaves status as it was
correlate_internal_ops_nostatus(s, resp) ==
    IF s.status = "failed" THEN Res(s, 0)
    ELSE IF ~Truthy(StateGet(s.gap_analysis)) \/ ~Truthy(StateGet(s.internal_ops))
    THEN Res([s EXCEPT !.gap_correlations = List(<<>>)], 0)
    ELSE Res([s EXCEPT !.status = "completed",
                       !.gap_correlations = List(correlate_gaps(resp))], 1)

correlate_internal_ops(s, resp) ==
    IF s.status = "failed" THEN Res(s, 0)
    ELSE IF ~Truthy(StateGet(s.gap_analysis)) \/ ~Truthy(StateGet(s.internal_ops))
    THEN Res([s EXCEPT !.status = "completed", !.gap_correlations = List(<<>>)], 0)
    ELSE Res([s EXCEPT !.status = "completed",
                       !.gap_correlations = List(correlate_gaps(resp))], 1)

\* ------------------------------------------------------------- finalize
JobId == "job-1"
EmptyDb == [report |-> None, case_studies |-> <<>>, gap |-> None, ops |-> None]

\* The steps of finalize_result's try block work on a record a: the tables
\* (db), the job's vertical (jv), the writes attempted (w), the memory captures
\* done (m) and whether no exception was raised so far (ok).
\* job = ResearchJob.objects.get(id=job_id)
FinGetJob(a, s, fail) ==
    IF s.job_id # JobId \/ fail = 1 THEN [a EXCEPT !.ok = FALSE] ELSE a

\* if state.get('vertical'): job.vertical = ...; job.save(update_fields=['vertical'])
FinVertical(a, s, fail) ==
    IF ~a.ok \/ ~Truthy(StateGet(s.vertical)) THEN a
    ELSE IF fail = 2 THEN [a EXCEPT !.ok = FALSE, !.w = @ + 1]
    ELSE [a EXCEPT !.jv = s.vertical.v, !.w = @ + 1]

\* ResearchReport.objects.update_or_create(research_job=job, defaults=...)
FinReport(a, s, fail) ==
    IF ~a.ok \/ ~Truthy(ReportOf(s)) THEN a
    ELSE IF fail = 3 THEN [a EXCEPT !.ok = FALSE, !.w = @ + 1]
    ELSE [a EXCEPT !.db.report = Dict(ResearchReportData(ReportOf(s).v)), !.w = @ + 1]

\* for cs in state.get('competitor_case_studies', []): CompetitorCaseStudy.objects.create(...)
FinCaseStudies(a, s, fail) ==
    LET cs == StateGetD(s.competitor_case_studies, List(<<>>))
    IN  IF ~a.ok THEN a
        ELSE IF cs.k # "list" THEN [a EXCEPT !.ok = FALSE]
        ELSE IF cs.v = <<>> THEN a
        ELSE IF fail = 4 THEN [a EXCEPT !.ok = FALSE, !.w = @ + 1]
        ELSE [a EXCEPT !.db.case_studies = @ \o cs.v, !.w = @ + Len(cs.v)]

\* the defaults of GapAnalysis.objects.update_or_create
GapRow(g) ==
    [technology_gaps |-> JGet(g, "technology_gaps", <<>>),
     capability_gaps |-> JGet(g, "capability_gaps", <<>>),
     process_gaps |-> JGet(g, "process_gaps", <<>>),
     recommendations |-> JGet(g, "recommendations", <<>>),
     priority_areas |-> JGet(g, "priority_areas", <<>>),
     confidence_score |-> JGet(g, "confidence_score", 0),
     analysis_notes |-> JGet(g, "analysis_notes", <<>>)]

\* GapAnalysis.objects.update_or_create(research_job=job, defaults=...)
FinGap(a, s, fail) ==
    IF ~a.ok \/ ~Truthy(StateGet(s.gap_analysis)) THEN a
    ELSE IF fail = 5 THEN [a EXCEPT !.ok = FALSE, !.w = @ + 1]
    ELSE [a EXCEPT !.db.gap = Dict(GapRow(s.gap_analysis.v)), !.w = @ + 1]

\* InternalOpsIntel.objects.update_or_create(research_job=job, defaults=...)
FinOps(a, s, fail) ==
    IF ~a.ok \/ ~Truthy(StateGet(s.internal_ops)) THEN a
    ELSE IF fail = 6 THEN [a EXCEPT !.ok = FALSE, !.w = @ + 1]
    ELSE [a EXCEPT !.db.ops = Dict([intel |-> s.internal_ops.v,
                                    gap_correlations |->
                                        StateGetD(s.gap_correlations, List(<<>>))]),
                   !.w = @ + 1]

\* MemoryCapture().capture_from_research(job), in its own try block
FinMemory(a, memfail) ==
    IF ~a.ok THEN [a EXCEPT !.m = 0]
    ELSE IF memfail THEN [a EXCEPT !.m = 0, !.w = @ + 1]
    ELSE [a EXCEPT !.m = 1, !.w = @ + 1]


\* mutant of finalize_result: the guard on a failed state is missing
finalize_result_noguard(s, d, jv, fail, memfail) ==
    IF s.job_id = ""
    THEN [st |-> [s EXCEPT !.status = "completed"], calls |-> 0,
          db |-> d, jv |-> jv, m |-> 0, w |-> 0]
    ELSE LET a0 == [db |-> d, jv |-> jv, w |-> 0, ok |-> TRUE, m |-> 0]
             a1 == FinGetJob(a0, s, fail)
             a2 == FinVertical(a1, s, fail)
             a3 == FinReport(a2, s, fail)
             a4 == FinCaseStudies(a3, s, fail)
             a5 == FinGap(a4, s, fail)
             a6 == FinOps(a5, s, fail)
             a7 == FinMemory(a6, memfail)
         IN  [st |-> [s EXCEPT !.status = "completed"], calls |-> 0,
              db |-> a7.db, jv |-> a7.jv, m |-> a7.m, w |-> a7.w]

\* mutant of finalize_result: an exception of the try block is surfaced as a
\* failed state
finalize_result_surfaces(s, d, jv, fail, memfail) ==
    IF s.status = "failed"
    THEN [st |-> s, calls |-> 0, db |-> d, jv |-> jv, m |-> 0, w |-> 0]
    ELSE IF s.job_id = ""
    THEN [st |-> [s EXCEPT !.status = "completed"], calls |-> 0,
          db |-> d, jv |-> jv, m |-> 0, w |-> 0]
    ELSE LET a0 == [db |-> d, jv |-> jv, w |-> 0, ok |-> TRUE, m |-> 0]
             a1 == FinGetJob(a0, s, fail)
             a2 == FinVertical(a1, s, fail)
             a3 == FinReport(a2, s, fail)
             a4 == FinCaseStudies(a3, s, fail)
             a5 == FinGap(a4, s, fail)
             a6 == FinOps(a5, s, fail)
             a7 == FinMemory(a6, memfail)
         IN  [st |-> [s EXCEPT !.status = IF a7.ok THEN "completed" ELSE "failed",
                               !.error = IF a7.ok THEN @ ELSE "finalize failed"],
              calls |-> 0, db |-> a7.db, jv |-> a7.jv, m |-> a7.m, w |-> a7.w]

\* finalize_result: the returned state, the tables, the job's vertical, the
\* number of memory captures and of writes attempted
finalize_result(s, d, jv, fail, memfail) ==
    IF s.status = "failed"
    THEN [st |-> s, calls |-> 0, db |-> d, jv |-> jv, m |-> 0, w |-> 0]
    ELSE IF s.job_id = ""
    THEN [st |-> [s EXCEPT !.status = "completed"], calls |-> 0,
          db |-> d, jv |-> jv, m |-> 0, w |-> 0]
    ELSE LET a0 == [db |-> d, jv |-> jv, w |-> 0, ok |-> TRUE, m |-> 0]
             a1 == FinGetJob(a0, s, fail)
             a2 == FinVertical(a1, s, fail)
             a3 == FinReport(a2, s, fail)
             a4 == FinCaseStudies(a3, s, fail)
             a5 == FinGap(a4, s, fail)
             a6 == FinOps(a5, s, fail)
             a7 == FinMemory(a6, memfail)
         IN  [st |-> [s EXCEPT !.status = "completed"], calls |-> 0,
              db |-> a7.db, jv |-> a7.jv, m |-> a7.m, w |-> a7.w]


\* mutant of should_continue: a failed state is routed on
should_continue_always(s) == "continue"

\* mutant of should_continue: the test is inverted
should_continue_inverted(s) == IF s.status # "failed" THEN "end" ELSE "continue"

\* should_continue, the router of every conditional edge
should_continue(s) == IF s.status = "failed" THEN "end" ELSE "continue"

\* --------------------------------------------------------------- inputs
MaxStudies == 2

ReportJson ==
    [company_overview |-> <<"Acme makes anvils">>, website |-> "acme.example",
     pain_points |-> <<"slow onboarding">>]

NoResp == [kind |-> "none"]

\* what raised during a call of finalize, recorded with the call
Raising(fail, memfail) == [kind |-> "none", fail |-> fail, memfail |-> memfail]

ResearchResponses ==
    {Raise("quota exceeded"), Raise(""), NullText,
     Text(<<Junk>>),
     Text(<<J(Dict(ReportJson))>>),
     Text(<<Blank, Fence, J(Dict(ReportJson)), Fence, Blank>>),
     Text(<<Fence, J(Dict(ReportJson))>>),
     Text(<<J(Dict(EmptyDict))>>),
     Text(<<J(Dict([company_overview |-> <<"Acme">>, stock_ticker |-> "ACME"]))>>),
     Text(<<J(List(<<>>))>>)}

ClassifyResponses ==
    {Raise("timeout"), NullText, Text(<<Junk>>), Text(<<J(Dict(EmptyDict))>>),
     Text(<<Word("healthcare")>>), Text(<<Word("Healthcare"), Blank>>),
     Text(<<Word("anvils")>>)}

CaseStudyJson(i) ==
    Dict([competitor_name |-> "Rival", case_study_title |-> "Rival automates",
          relevance_score |-> Num(i)])

CompetitorResponses ==
    {Raise("timeout"), NullText, Text(<<Junk>>), Text(<<J(List(<<>>))>>),
     Text(<<J(Dict([case_studies |->
                <<Dict([competitor_name |-> "Rival", relevance_score |-> NotNum])>>]))>>),
     Text(<<J(Dict([case_studies |-> <<List(<<>>)>>]))>>)}
    \cup {Text(<<Fence, J(Dict([case_studies |-> [i \in 1..n |-> CaseStudyJson(i)]])), Fence>>) :
            n \in 0..MaxStudies}

GapJson ==
    [technology_gaps |-> <<"no data platform">>, confidence_score |-> Num(7),
     analysis_notes |-> <<"from sales history">>]

GapResponses ==
    {Raise("timeout"), NullText, Text(<<Junk>>), Text(<<J(List(<<>>))>>),
     Text(<<J(Dict([confidence_score |-> NotNum]))>>),
     Text(<<J(Dict(GapJson))>>), Text(<<J(Dict(EmptyDict))>>)}

OpsJson ==
    [employee_sentiment |-> Dict([overall_rating |-> Num(4), trend |-> "improving"]),
     key_insights |-> <<"growth phase">>, confidence_score |-> Num(8)]

OpsResponses ==
    {Raise("timeout"), NullText, Text(<<Junk>>), Text(<<J(List(<<>>))>>),
     Text(<<J(Dict([employee_sentiment |-> List(<<>>)]))>>),
     Text(<<J(Dict([confidence_score |-> NotNum]))>>),
     Text(<<J(Dict(OpsJson))>>)}

CorrelateResponses ==
    {Raise("timeout"), NullText, Text(<<Junk>>), Text(<<J(List(<<>>))>>),
     Text(<<J(Dict([gap_correlations |->
                <<Dict([gap_type |-> "technology", confidence |-> NotNum])>>]))>>),
     Text(<<J(Dict([gap_correlations |->
                <<Dict([gap_type |-> "technology", confidence |-> Num(8)])>>]))>>)}

\* which write of finalize raises (0: none; 1: loading the job; 2..6: the
\* vertical, report, case-study, gap-analysis, internal-ops write)
FinalizeFailures == 0..6

\* the oracle call did not give a JSON object of the expected shape
OracleFailed(resp) ==
    \/ resp.kind \in {"raise", "null"}
    \/ /\ resp.kind = "text"
       /\ LET p == Extract(resp.lines) IN ~p.ok \/ ~IsDict(p.v)

\* ------------------------------------------- projects and their iterations
\* the limits of the context accumulator's queries
UseCaseLimit == 5
PlayLimit == 10
AnnotationLimit == 20

\* queryset[:n]
Take(q, n) == SubSeq(q, 1, IF Len(q) < n THEN Len(q) ELSE n)

\* the sequence q without its i-th element
Remove(q, i) == SubSeq(q, 1, i - 1) \o SubSeq(q, i + 1, Len(q))

\* order_by on a sequence of [key, row] pairs: the rows by ascending key, rows
\* of equal key in table order
RECURSIVE order_by(_)
order_by(q) ==
    IF q = <<>> THEN <<>>
    ELSE LET i == CHOOSE i \in DOMAIN q :
                    \A j \in DOMAIN q :
                        q[i].key < q[j].key \/ (q[i].key = q[j].key /\ i <= j)
         IN  <<q[i].row>> \o order_by(Remove(q, i))

\* [f(x) for x in q if pred(x)] for a set of indices keep
RECURSIVE SelectIdx(_, _, _)
SelectIdx(q, keep, i) ==
    IF i > Len(q) THEN <<>>
    ELSE (IF i \in keep THEN <<q[i]>> ELSE <<>>) \o SelectIdx(q, keep, i + 1)

\* datetime.isoformat()
isoformat(t) == <<"2026-01-01T00:00:", ToString(t)>>

\* An Iteration row as Iteration.save inserts it; id is the primary key and
\* created_at the time of the insert
IterationRow(id, seq, name) ==
    [id |-> id, sequence |-> seq, name |-> name, status |-> "pending",
     inherited_context |-> EmptyDict, created_at |-> id]

\* A ResearchJob row of an iteration as IterationStartView.post creates it,
\* with the report and the use cases reached through job.report and
\* job.use_cases
JobRow(it, client) ==
    [iteration |-> it, client_name |-> client, status |-> "pending",
     report |-> None, use_cases |-> <<>>]

\* iteration.research_job, the reverse accessor of the one-to-one field
research_job(js, it) ==
    LET S == {i \in DOMAIN js : js[i].iteration = it.id}
    IN  IF S = {} THEN None
        ELSE Dict(js[CHOOSE i \in S : \A j \in S : i <= j])

\* Iteration.objects.filter(project=..., sequence__lt=n).order_by('sequence')
previous_iterations(its, n) ==
    order_by([i \in DOMAIN SelectIdx(its, {j \in DOMAIN its : its[j].sequence < n}, 1) |->
                LET row == SelectIdx(its, {j \in DOMAIN its : its[j].sequence < n}, 1)[i]
                IN  [key |-> row.sequence, row |-> row]])

\* ------------------------------------------------- the context accumulator
\* ContextAccumulator._summarize_iteration
_summarize_iteration(js, it) ==
    LET j == research_job(js, it)
    IN  IF ~Truthy(j) THEN None
        ELSE Dict([sequence |-> it.sequence,
                   name |-> IF it.name # <<>> THEN it.name
                            ELSE <<"Iteration ", ToString(it.sequence)>>,
                   client_name |-> j.v.client_name,
                   status |-> j.v.status,
                   created_at |-> isoformat(it.created_at)])

\* ContextAccumulator._summarize_report
_summarize_report(js, it) ==
    LET j == research_job(js, it)
    IN  IF ~Truthy(j) THEN None
        ELSE IF ~Truthy(j.v.report) THEN None
        ELSE LET report == j.v.report.v
             IN  Dict([company_overview |-> report.company_overview,
                       digital_maturity |-> report.digital_maturity,
                       ai_adoption_stage |-> report.ai_adoption_stage,
                       ai_footprint |-> report.ai_footprint,
                       key_initiatives |-> report.key_initiatives,
                       strategic_goals |-> report.strategic_goals])

\* x or []
OrEmptyList(x) == IF Len(x) = 0 THEN <<>> ELSE x

\* ContextAccumulator._get_pain_points
_get_pain_points(js, it) ==
    LET j == research_job(js, it)
    IN  IF ~Truthy(j) THEN <<>>
        ELSE IF ~Truthy(j.v.report) THEN <<>>
        ELSE OrEmptyList(j.v.report.v.pain_points)

\* ContextAccumulator._get_opportunities
_get_opportunities(js, it) ==
    LET j == research_job(js, it)
    IN  IF ~Truthy(j) THEN <<>>
        ELSE IF ~Truthy(j.v.report) THEN <<>>
        ELSE OrEmptyList(j.v.report.v.opportunities)

\* job.use_cases.filter(priority='high') in the order of UseCase.Meta: impact
\* score descending, then newest first
high_use_cases(ucs) ==
    LET high == SelectIdx(ucs, {i \in DOMAIN ucs : ucs[i].priority = "high"}, 1)
    IN  order_by([i \in DOMAIN high |->
                    [key |-> 0 - (high[i].impact_score * 100 + high[i].created_at),
                     row |-> high[i]]])

\* ContextAccumulator._get_use_cases
_get_use_cases(js, it) ==
    LET j == research_job(js, it)
    IN  IF ~Truthy(j) THEN <<>>
        ELSE LET use_cases == Take(high_use_cases(j.v.use_cases), UseCaseLimit)
             IN  [i \in DOMAIN use_cases |->
                    [title |-> use_cases[i].title,
                     description |-> use_cases[i].description,
                     business_problem |-> use_cases[i].business_problem,
                     impact_score |-> use_cases[i].impact_score,
                     feasibility_score |-> use_cases[i].feasibility_score]]

\* newest first, the order of WorkProduct.Meta and Annotation.Meta
newest_first(rows) ==
    order_by([i \in DOMAIN rows |-> [key |-> 0 - rows[i].created_at, row |-> rows[i]]])

\* ContextAccumulator._get_starred_plays
_get_starred_plays(p) ==
    LET wps == p.work_products
        sel == SelectIdx(wps, {i \in DOMAIN wps :
                                 wps[i].starred /\ wps[i].category = "play"}, 1)
        work_products == Take(newest_first(sel), PlayLimit)
        live == SelectIdx(work_products,
                          {i \in DOMAIN work_products : Truthy(work_products[i].obj)}, 1)
    IN  [i \in DOMAIN live |->
            [title |-> JGet(live[i].obj.v, "title", <<"str(obj)">>),
             value_proposition |-> JGet(live[i].obj.v, "value_proposition", <<>>),
             elevator_pitch |-> JGet(live[i].obj.v, "elevator_pitch", <<>>),
             iteration_sequence |-> live[i].source_iteration,
             notes |-> live[i].notes]]

\* ContextAccumulator._get_annotations
_get_annotations(p) ==
    LET annotations == Take(newest_first(p.annotations), AnnotationLimit)
    IN  [i \in DOMAIN annotations |->
            [text |-> annotations[i].text,
             created_at |-> isoformat(annotations[i].created_at)]]

\* mutant of DropEmpty: every key is kept
DropEmpty_keepall(context) == context

\* {k: v for k, v in context.items() if v}
DropEmpty(context) ==
    [k \in {x \in DOMAIN context : Truthy(context[x])} |-> context[k]]

\* mutant of build_context: without an earlier iteration the plays and the
\* notes of the project are still returned
build_context_noprev(p, its, js, it) ==
    IF p.context_mode = "fresh" THEN EmptyDict
    ELSE LET before == previous_iterations(its, it.sequence)
         IN  IF before = <<>>
             THEN DropEmpty([starred_plays |-> List(_get_starred_plays(p)),
                             user_notes |-> List(_get_annotations(p))])
             ELSE LET prev == before[Len(before)]
                  IN  IF ~Truthy(research_job(js, prev)) THEN EmptyDict
                      ELSE DropEmpty(
                            [previous_iteration_summary |-> _summarize_iteration(js, prev),
                             previous_report_summary |-> _summarize_report(js, prev),
                             identified_pain_points |-> List(_get_pain_points(js, prev)),
                             identified_opportunities |-> List(_get_opportunities(js, prev)),
                             promising_use_cases |-> List(_get_use_cases(js, prev)),
                             starred_plays |-> List(_get_starred_plays(p)),
                             user_notes |-> List(_get_annotations(p))])

\* ContextAccumulator.build_context
build_context(p, its, js, it) ==
    IF p.context_mode = "fresh" THEN EmptyDict
    ELSE LET before == previous_iterations(its, it.sequence)
         IN  IF before = <<>> THEN EmptyDict
             ELSE LET prev == before[Len(before)]
                  IN  IF ~Truthy(research_job(js, prev)) THEN EmptyDict
                      ELSE DropEmpty(
                            [previous_iteration_summary |-> _summarize_iteration(js, prev),
                             previous_report_summary |-> _summarize_report(js, prev),
                             identified_pain_points |-> List(_get_pain_points(js, prev)),
                             identified_opportunities |-> List(_get_opportunities(js, prev)),
                             promising_use_cases |-> List(_get_use_cases(js, prev)),
                             starred_plays |-> List(_get_starred_plays(p)),
                             user_notes |-> List(_get_annotations(p))])

\* mutant of dict_fromkeys: of the occurrences of an element the last is kept
RECURSIVE dict_fromkeys_keeplast(_)
dict_fromkeys_keeplast(q) ==
    IF q = <<>> THEN <<>>
    ELSE LET rest == dict_fromkeys_keeplast(Tail(q))
         IN  IF \E i \in DOMAIN rest : rest[i] = Head(q) THEN rest ELSE <<Head(q)>> \o rest

\* list(dict.fromkeys(q)): q without the later occurrences of each element
RECURSIVE dict_fromkeys(_)
dict_fromkeys(q) ==
    IF q = <<>> THEN <<>>
    ELSE LET init == dict_fromkeys(SubSeq(q, 1, Len(q) - 1))
             last == q[Len(q)]
         IN  IF \E i \in DOMAIN init : init[i] = last THEN init ELSE Append(init, last)

\* mutant of unique_by_title: of the use cases of one title the last is kept
RECURSIVE unique_by_title_lastwins(_)
unique_by_title_lastwins(q) ==
    IF q = <<>> THEN <<>>
    ELSE LET rest == unique_by_title_lastwins(Tail(q))
         IN  IF \E i \in DOMAIN rest : rest[i].title = Head(q).title
             THEN rest ELSE <<Head(q)>> \o rest

\* the loop over all_use_cases keeping the first use case of each title
RECURSIVE unique_by_title(_)
unique_by_title(q) ==
    IF q = <<>> THEN <<>>
    ELSE LET init == unique_by_title(SubSeq(q, 1, Len(q) - 1))
             last == q[Len(q)]
         IN  IF \E i \in DOMAIN init : init[i].title = last.title
             THEN init ELSE Append(init, last)

\* the concatenation of f over the rows, in the rows' order
RECURSIVE extend_all(_, _, _)
extend_all(js, rows, field) ==
    IF rows = <<>> THEN <<>>
    ELSE (CASE field = "pain_points" -> _get_pain_points(js, Head(rows))
            [] field = "opportunities" -> _get_opportunities(js, Head(rows))
            [] field = "use_cases" -> _get_use_cases(js, Head(rows)))
         \o extend_all(js, Tail(rows), field)

\* mutant of get_cumulative_context: the context_mode is not looked at
get_cumulative_context_anymode(p, its, js, it) ==
    LET all_previous == previous_iterations(its, it.sequence)
    IN  DropEmpty(
          [iteration_count |-> IntVal(Len(all_previous)),
           cumulative_pain_points |->
               List(dict_fromkeys(extend_all(js, all_previous, "pain_points"))),
           cumulative_opportunities |->
               List(dict_fromkeys(extend_all(js, all_previous, "opportunities"))),
           cumulative_use_cases |->
               List(unique_by_title(extend_all(js, all_previous, "use_cases"))),
           starred_plays |-> List(_get_starred_plays(p)),
           user_notes |-> List(_get_annotations(p))])

\* ContextAccumulator.get_cumulative_context
get_cumulative_context(p, its, js, it) ==
    IF p.context_mode = "fresh" THEN EmptyDict
    ELSE LET all_previous == previous_iterations(its, it.sequence)
         IN  DropEmpty(
               [iteration_count |-> IntVal(Len(all_previous)),
                cumulative_pain_points |->
                    List(dict_fromkeys(extend_all(js, all_previous, "pain_points"))),
                cumulative_opportunities |->
                    List(dict_fromkeys(extend_all(js, all_previous, "opportunities"))),
                cumulative_use_cases |->
                    List(unique_by_title(extend_all(js, all_previous, "use_cases"))),
                starred_plays |-> List(_get_starred_plays(p)),
                user_notes |-> List(_get_annotations(p))])

\* ----------------------------------------------------- the pipeline run
\* initial_state of run_research_sync; internal_ops and gap_correlations are
\* not among its keys
InitialState(j) ==
    [client_name |-> j.client_name, sales_history |-> j.sales_history,
     prompt |-> j.prompt, job_id |-> JobId, status |-> "pending",
     result |-> <<>>, error |-> "",
     research_report |-> None, vertical |-> None,
     competitor_case_studies |-> None, gap_analysis |-> None,
     web_sources |-> None, internal_ops |-> Absent, gap_correlations |-> Absent]

Jobs ==
    {[client_name |-> c, sales_history |-> h, prompt |-> "", status |-> "pending",
      result |-> <<>>, error |-> "", vertical |-> ""] :
        c \in {"", "Acme Corp"}, h \in {"", "bought anvils in 2019"}}

\* a Project row with no work product and no annotation
NewProject(client, mode) ==
    [client_name |-> client, context_mode |-> mode,
     work_products |-> <<>>, annotations |-> <<>>]

\* The job was created through the research endpoint (no iteration) or by
\* IterationStartView.post for the one iteration of a project, whose
\* client_name is not blank.
Init ==
    /\ api_key \in BOOLEAN
    /\ job \in Jobs
    /\ db = EmptyDb
    /\ mem = 0
    /\ state = InitialState(job)
    /\ pc = "idle"
    /\ trace = <<>>
    /\ project = NewProject(job.client_name, "accumulate")
    /\ iterations \in {<<>>} \cup (IF job.client_name # ""
                                   THEN {<<IterationRow(1, 1, <<>>)>>} ELSE {})
    /\ jobs = <<>>
    /\ req = <<>>
    /\ bundle = <<>>

\* one stage call, as recorded in trace
Call(stage, r, resp, w) ==
    [stage |-> stage, in |-> state, out |-> r.st, calls |-> r.calls,
     w |-> w, resp |-> resp]

\* mutant of Route: a run that would end goes once more through research
Route_retries(s, next) ==
    IF should_continue(s) = "end"
    THEN (IF Len(trace) < 2 THEN "research" ELSE "END")
    ELSE next

\* a conditional edge: END when should_continue says end
Route(s, next) == IF should_continue(s) = "end" THEN "END" ELSE next

\* ResearchJobExecuteView.post accepts the job, or IterationStartView.post has
\* created it and marks its iteration running; run_research_sync marks the job
\* running, builds the initial state and invokes the workflow at its entry point
StartRun ==
    /\ pc = "idle"
    /\ job.status \in {"pending", "failed"}
    /\ job' = [job EXCEPT !.status = "running"]
    /\ state' = InitialState(job)
    /\ trace' = <<>>
    /\ pc' = "validate"
    /\ iterations' = [i \in DOMAIN iterations |->
                        [iterations[i] EXCEPT !.status = "running"]]
    /\ UNCHANGED <<api_key, db, mem, project, jobs, req, bundle>>

Validate ==
    /\ pc = "validate"
    /\ LET r == validate_input(state, api_key)
       IN  /\ state' = r.st
           /\ trace' = Append(trace, Call("validate", r, NoResp, 0))
           /\ pc' = Route(r.st, "research")
    /\ UNCHANGED <<api_key, job, db, mem>>
    /\ UNCHANGED projvars

Research ==
    /\ pc = "research"
    /\ \E resp \in ResearchResponses :
         LET r == conduct_research(state, resp)
         IN  /\ state' = r.st
             /\ trace' = Append(trace, Call("research", r, resp, 0))
             /\ pc' = Route(r.st, "classify")
    /\ UNCHANGED <<api_key, job, db, mem>>
    /\ UNCHANGED projvars

Classify ==
    /\ pc = "classify"
    /\ \E resp \in ClassifyResponses :
         LET r == classify_vertical(state, resp)
         IN  /\ state' = r.st
             /\ trace' = Append(trace, Call("classify", r, resp, 0))
             /\ pc' = Route(r.st, "competitors")
    /\ UNCHANGED <<api_key, job, db, mem>>
    /\ UNCHANGED projvars

Competitors ==
    /\ pc = "competitors"
    /\ \E resp \in CompetitorResponses :
         LET r == search_competitors(state, resp)
         IN  /\ state' = r.st
             /\ trace' = Append(trace, Call("competitor_search", r, resp, 0))
             /\ pc' = Route(r.st, "gap_analysis")
    /\ UNCHANGED <<api_key, job, db, mem>>
    /\ UNCHANGED projvars

GapAnalysis ==
    /\ pc = "gap_analysis"
    /\ \E resp \in GapResponses :
         LET r == analyze_gaps(state, resp)
         IN  /\ state' = r.st
             /\ trace' = Append(trace, Call("gap_analysis", r, resp, 0))
             /\ pc' = Route(r.st, "finalize")
    /\ UNCHANGED <<api_key, job, db, mem>>
    /\ UNCHANGED projvars

Finalize ==
    /\ pc = "finalize"
    /\ \E fail \in FinalizeFailures, memfail \in BOOLEAN :
         LET r == finalize_result(state, db, job.vertical, fail, memfail)
         IN  /\ state' = r.st
             /\ db' = r.db
             /\ job' = [job EXCEPT !.vertical = r.jv]
             /\ mem' = mem + r.m
             /\ trace' = Append(trace, Call("finalize", r, Raising(fail, memfail), r.w))
             /\ pc' = "END"
    /\ UNCHANGED api_key
    /\ UNCHANGED projvars

\* run_research_sync after research_workflow.invoke has returned, then
\* IterationStartView.post copying the job's status to the iteration
FinishRun ==
    /\ pc = "END"
    /\ job' = [job EXCEPT !.status = "completed",
                          !.result = state.result,
                          !.error = state.error,
                          !.vertical = IF Truthy(StateGet(state.vertical))
                                       THEN state.vertical.v ELSE @]
    /\ iterations' = [i \in DOMAIN iterations |->
                        [iterations[i] EXCEPT
                            !.status = IF job'.status = "completed"
                                       THEN "completed" ELSE "failed"]]
    /\ pc' = "done"
    /\ UNCHANGED <<api_key, db, mem, state, trace, project, jobs, req, bundle>>

Next ==
    \/ StartRun
    \/ Validate
    \/ Research
    \/ Classify
    \/ Competitors
    \/ GapAnalysis
    \/ Finalize
    \/ FinishRun

Spec == Init /\ [][Next]_vars

\* ------------------------------------------- stage functions on their own
\* Each stage function is applied to a state it may be handed outside the
\* workflow, as the repository's tests do.
Statuses ==
    {"pending", "researching", "classifying", "competitor_search",
     "gap_analysis", "completed", "failed"}

FullReport == Dict(ResearchReportData(ReportJson))
FullGap == Dict(GapAnalysisData(GapJson))
FullOps == Dict(InternalOpsData(OpsJson))
OneStudy == List(<<CompetitorCaseStudyData(CaseStudyJson(1))>>)
OneCorrelation == List(<<GapCorrelation(Dict([gap_type |-> "technology", confidence |-> Num(8)]))>>)

Payloads(rr, v, cs, g, o, c) ==
    [research_report |-> rr, vertical |-> v, competitor_case_studies |-> cs,
     gap_analysis |-> g, internal_ops |-> o, gap_correlations |-> c]

Profiles ==
    {Payloads(None, None, None, None, Absent, Absent),
     Payloads(Absent, Absent, Absent, Absent, Absent, Absent),
     Payloads(FullReport, None, None, None, Absent, Absent),
     Payloads(Dict([company_overview |-> <<"Test">>]), Str("technology"),
              List(<<>>), None, None, None),
     Payloads(FullReport, Str("technology"), OneStudy, FullGap, FullOps, OneCorrelation),
     Payloads(FullReport, Str("technology"), OneStudy, FullGap, None, Absent),
     Payloads(FullReport, Str("other"), List(<<>>), None, FullOps, Absent),
     Payloads(FullReport, Str("technology"), OneStudy, Dict(EmptyDict), FullOps, List(<<>>)),
     Payloads(FullReport, Str("technology"), None, FullGap, FullOps, Absent),
     Payloads(None, Str("technology"), OneStudy, FullGap, FullOps, Absent)}

StageState(st, c, jid, p) ==
    [client_name |-> c, sales_history |-> "", prompt |-> "", job_id |-> jid,
     status |-> st,
     result |-> IF IsDict(p.research_report) THEN <<"## Company Overview">> ELSE <<>>,
     error |-> IF st = "failed" THEN "Client name is required" ELSE "",
     research_report |-> p.research_report, vertical |-> p.vertical,
     competitor_case_studies |-> p.competitor_case_studies,
     gap_analysis |-> p.gap_analysis, web_sources |-> None,
     internal_ops |-> p.internal_ops, gap_correlations |-> p.gap_correlations]

StageInputs ==
    {StageState(st, "Acme Corp", JobId, p) : st \in Statuses, p \in Profiles}
    \cup {StageState(st, c, jid, Payloads(FullReport, Str("technology"), OneStudy,
                                          FullGap, FullOps, OneCorrelation)) :
            st \in {"pending", "completed", "failed"},
            c \in {"", "Acme Corp"},
            jid \in {"", JobId, "job-missing"}}

InitStage ==
    /\ api_key \in BOOLEAN
    /\ job = [client_name |-> "Acme Corp", sales_history |-> "", prompt |-> "",
              status |-> "running", result |-> <<>>, error |-> "", vertical |-> ""]
    /\ db = EmptyDb
    /\ mem = 0
    /\ state \in StageInputs
    /\ pc = "unit"
    /\ trace = <<>>
    /\ project = NewProject("Acme Corp", "accumulate")
    /\ iterations = <<>>
    /\ jobs = <<>>
    /\ req = <<>>
    /\ bundle = <<>>

\* the call r of a stage function that touches no table
StageCall(stage, r, resp) ==
    /\ pc = "unit"
    /\ Len(trace) < MaxCalls
    /\ state' = r.st
    /\ trace' = Append(trace, Call(stage, r, resp, 0))
    /\ UNCHANGED <<api_key, job, db, mem, pc>>
    /\ UNCHANGED projvars

CallValidate == StageCall("validate", validate_input(state, api_key), NoResp)

CallResearch ==
    \E resp \in ResearchResponses :
        StageCall("research", conduct_research(state, resp), resp)

CallClassify ==
    \E resp \in ClassifyResponses :
        StageCall("classify", classify_vertical(state, resp), resp)

CallCompetitors ==
    \E resp \in CompetitorResponses :
        StageCall("competitor_search", search_competitors(state, resp), resp)

CallGapAnalysis ==
    \E resp \in GapResponses :
        StageCall("gap_analysis", analyze_gaps(state, resp), resp)

CallInternalOps ==
    \E resp \in OpsResponses :
        StageCall("internal_ops", research_internal_ops(state, resp), resp)

CallCorrelate ==
    \E resp \in CorrelateResponses :
        StageCall("correlate", correlate_internal_ops(state, resp), resp)

CallFinalize ==
    /\ pc = "unit"
    /\ Len(trace) < MaxCalls
    /\ \E fail \in FinalizeFailures, memfail \in BOOLEAN :
         LET r == finalize_result(state, db, job.vertical, fail, memfail)
         IN  /\ state' = r.st
             /\ db' = r.db
             /\ job' = [job EXCEPT !.vertical = r.jv]
             /\ mem' = mem + r.m
             /\ trace' = Append(trace, Call("finalize", r, Raising(fail, memfail), r.w))
    /\ UNCHANGED <<api_key, pc>>
    /\ UNCHANGED projvars

\* finalize_result applied again to the state it returned: the same job_id and
\* the same payloads, against the tables the earlier call left
CallFinalizeAgain ==
    /\ pc = "unit"
    /\ trace # <<>>
    /\ \A i \in 1..Len(trace) : trace[i].stage = "finalize"
    /\ Len(trace) < MaxFinalize
    /\ \E fail \in FinalizeFailures, memfail \in BOOLEAN :
         LET r == finalize_result(state, db, job.vertical, fail, memfail)
         IN  /\ state' = r.st
             /\ db' = r.db
             /\ job' = [job EXCEPT !.vertical = r.jv]
             /\ mem' = mem + r.m
             /\ trace' = Append(trace, Call("finalize", r, Raising(fail, memfail), r.w))
    /\ UNCHANGED <<api_key, pc>>
    /\ UNCHANGED projvars

NextStage ==
    \/ CallValidate
    \/ CallResearch
    \/ CallClassify
    \/ CallCompetitors
    \/ CallGapAnalysis
    \/ CallInternalOps
    \/ CallCorrelate
    \/ CallFinalize
    \/ CallFinalizeAgain

SpecStage == InitStage /\ [][NextStage]_vars

\* ------------------------------------------- requests on one project
\* The create and start requests of one project, interleaved at the grain of
\* their database statements: no request runs in a transaction.
Requests(kind) == {r \in DOMAIN req : req[r].kind = kind}

\* a request with the Iteration object it holds and the job it created
Request(kind, at, it) == [kind |-> kind, pc |-> at, it |-> it, job |-> 0]

\* Iteration.save, the sequence it assigns: (max_seq or 0) + 1
next_sequence(its) ==
    LET S == {its[i].sequence : i \in DOMAIN its}
    IN  (IF S = {} THEN 0 ELSE CHOOSE m \in S : \A n \in S : n <= m) + 1

\* mutant of insert_iteration: no unique constraint on (project, sequence)
insert_iteration_nounique(its, row) ==
    [ok |-> TRUE,
     its |-> Append(its, [row EXCEPT !.id = Len(its) + 1, !.created_at = Len(its) + 1])]

\* super().save() of a new Iteration: the INSERT, which unique_together
\* (project, sequence) rejects with an IntegrityError
insert_iteration(its, row) ==
    IF \E i \in DOMAIN its : its[i].sequence = row.sequence
    THEN [ok |-> FALSE, its |-> its]
    ELSE [ok |-> TRUE,
          its |-> Append(its, [row EXCEPT !.id = Len(its) + 1,
                                          !.created_at = Len(its) + 1])]

\* iteration.save() of a stored Iteration: the UPDATE of every field by primary key
update_iteration(its, row) == [its EXCEPT ![row.id] = row]

\* mutant of insert_job: the iteration field is a plain foreign key
insert_job_nounique(js, row) == [ok |-> TRUE, js |-> Append(js, row)]

\* ResearchJob.objects.create(..., iteration=iteration): the INSERT, which the
\* one-to-one field's unique index rejects with an IntegrityError
insert_job(js, row) ==
    IF \E i \in DOMAIN js : js[i].iteration = row.iteration
    THEN [ok |-> FALSE, js |-> js]
    ELSE [ok |-> TRUE, js |-> Append(js, row)]

\* a ResearchReport row as the context accumulator reads it
ReportRow(overview, pain_points, opportunities) ==
    [company_overview |-> overview, digital_maturity |-> "", ai_adoption_stage |-> "",
     ai_footprint |-> <<>>, key_initiatives |-> <<>>, strategic_goals |-> <<>>,
     pain_points |-> pain_points, opportunities |-> opportunities,
     talking_points |-> <<>>, decision_makers |-> <<>>]

\* What run_research_sync leaves of a run: the job's status (completed when
\* invoke returned, failed when it raised) and the report finalize wrote
RunOutcomes ==
    {[status |-> "completed", report |-> None],
     [status |-> "completed",
      report |-> Dict(ReportRow(<<"Acme makes anvils">>, <<"slow onboarding">>, <<>>))],
     [status |-> "failed", report |-> None]}

InitProject ==
    /\ api_key = TRUE
    /\ job = [client_name |-> "Acme Corp", sales_history |-> "", prompt |-> "",
              status |-> "pending", result |-> <<>>, error |-> "", vertical |-> ""]
    /\ db = EmptyDb
    /\ mem = 0
    /\ state = InitialState(job)
    /\ pc = "project"
    /\ trace = <<>>
    /\ project \in {NewProject("Acme Corp", mode) : mode \in {"accumulate", "fresh"}}
    /\ iterations = <<>>
    /\ jobs = <<>>
    /\ req = <<>>
    /\ bundle = <<>>

\* IterationListCreateView.perform_create up to the aggregate of
\* Iteration.save: the request holds a new Iteration with its sequence
PostIteration ==
    /\ pc = "project"
    /\ Len(req) < MaxRequests
    /\ req' = Append(req, Request("create", "insert",
                                  IterationRow(0, next_sequence(iterations), <<>>)))
    /\ UNCHANGED <<project, iterations, jobs, bundle>>
    /\ UNCHANGED runvars

\* Iteration.save: super().save() inserts the row
CreateInsert(r) ==
    /\ req[r].kind = "create" /\ req[r].pc = "insert"
    /\ LET res == insert_iteration(iterations, req[r].it)
       IN  /\ iterations' = res.its
           /\ req' = [req EXCEPT ![r].pc = IF res.ok THEN "context" ELSE "error",
                                 ![r].it = IF res.ok THEN res.its[Len(res.its)] ELSE @]
    /\ UNCHANGED <<project, jobs, bundle>>
    /\ UNCHANGED runvars

\* perform_create: build_context for the stored iteration, then iteration.save()
CreateContext(r) ==
    /\ req[r].kind = "create" /\ req[r].pc = "context"
    /\ LET row == [req[r].it EXCEPT
                      !.inherited_context = build_context(project, iterations, jobs, req[r].it)]
       IN  /\ iterations' = update_iteration(iterations, row)
           /\ req' = [req EXCEPT ![r].pc = "done", ![r].it = row]
    /\ UNCHANGED <<project, jobs, bundle>>
    /\ UNCHANGED runvars

\* IterationStartView.post: get_object_or_404, then the check that the
\* iteration has no research job (400 when it has one)
StartGet ==
    /\ pc = "project"
    /\ Len(req) < MaxRequests
    /\ \E i \in DOMAIN iterations :
         req' = Append(req, Request("start",
                                    IF Truthy(research_job(jobs, iterations[i]))
                                    THEN "rejected" ELSE "build",
                                    iterations[i]))
    /\ UNCHANGED <<project, iterations, jobs, bundle>>
    /\ UNCHANGED runvars

\* IterationStartView.post: build the context if the iteration has none
StartBuild(r) ==
    /\ req[r].kind = "start" /\ req[r].pc = "build"
    /\ IF req[r].it.inherited_context = EmptyDict /\ project.context_mode = "accumulate"
       THEN LET row == [req[r].it EXCEPT
                          !.inherited_context =
                              build_context(project, iterations, jobs, req[r].it)]
            IN  /\ iterations' = update_iteration(iterations, row)
                /\ req' = [req EXCEPT ![r].pc = "create", ![r].it = row]
       ELSE /\ req' = [req EXCEPT ![r].pc = "create"]
            /\ UNCHANGED iterations
    /\ UNCHANGED <<project, jobs, bundle>>
    /\ UNCHANGED runvars

\* IterationStartView.post: ResearchJob.objects.create
StartCreateJob(r) ==
    /\ req[r].kind = "start" /\ req[r].pc = "create"
    /\ LET res == insert_job(jobs, JobRow(req[r].it.id, project.client_name))
       IN  /\ jobs' = res.js
           /\ req' = [req EXCEPT ![r].pc = IF res.ok THEN "mark" ELSE "error",
                                 ![r].job = IF res.ok THEN Len(res.js) ELSE @]
    /\ UNCHANGED <<project, iterations, bundle>>
    /\ UNCHANGED runvars

\* IterationStartView.post: iteration.status = 'running'; iteration.save()
StartMark(r) ==
    /\ req[r].kind = "start" /\ req[r].pc = "mark"
    /\ LET row == [req[r].it EXCEPT !.status = "running"]
       IN  /\ iterations' = update_iteration(iterations, row)
           /\ req' = [req EXCEPT ![r].pc = "run", ![r].it = row]
    /\ UNCHANGED <<project, jobs, bundle>>
    /\ UNCHANGED runvars

\* run_research_sync: job.status = 'running'; job.save()
StartRunBegin(r) ==
    /\ req[r].kind = "start" /\ req[r].pc = "run"
    /\ jobs' = [jobs EXCEPT ![req[r].job].status = "running"]
    /\ req' = [req EXCEPT ![r].pc = "invoke"]
    /\ UNCHANGED <<project, iterations, bundle>>
    /\ UNCHANGED runvars

\* run_research_sync: the workflow has run; the job gets its terminal status
StartRunEnd(r) ==
    /\ req[r].kind = "start" /\ req[r].pc = "invoke"
    /\ \E o \in RunOutcomes :
         jobs' = [jobs EXCEPT ![req[r].job].status = o.status,
                              ![req[r].job].report = o.report]
    /\ req' = [req EXCEPT ![r].pc = "finish"]
    /\ UNCHANGED <<project, iterations, bundle>>
    /\ UNCHANGED runvars

\* IterationStartView.post: job.refresh_from_db(); the iteration takes the
\* job's status; iteration.save()
StartFinish(r) ==
    /\ req[r].kind = "start" /\ req[r].pc = "finish"
    /\ LET row == [req[r].it EXCEPT
                      !.status = IF jobs[req[r].job].status = "completed"
                                 THEN "completed" ELSE "failed"]
       IN  /\ iterations' = update_iteration(iterations, row)
           /\ req' = [req EXCEPT ![r].pc = "done", ![r].it = row]
    /\ UNCHANGED <<project, jobs, bundle>>
    /\ UNCHANGED runvars

NextProject ==
    \/ PostIteration
    \/ \E r \in DOMAIN req : CreateInsert(r)
    \/ \E r \in DOMAIN req : CreateContext(r)
    \/ StartGet
    \/ \E r \in DOMAIN req : StartBuild(r)
    \/ \E r \in DOMAIN req : StartCreateJob(r)
    \/ \E r \in DOMAIN req : StartMark(r)
    \/ \E r \in DOMAIN req : StartRunBegin(r)
    \/ \E r \in DOMAIN req : StartRunEnd(r)
    \/ \E r \in DOMAIN req : StartFinish(r)

SpecProject == InitProject /\ [][NextProject]_vars

\* --------------------------------- the context accumulator on a history
\* The accumulator is applied to the iterations of a project whose earlier
\* iterations have been started or not, with runs in flight or ended.
UseCaseRow(title, priority, impact, at) ==
    [title |-> title, description |-> <<"automate ", title>>,
     business_problem |-> <<"manual work">>, priority |-> priority,
     impact_score |-> impact, feasibility_score |-> 5, created_at |-> at]

\* what an earlier iteration has: no job, or a job in some status with the
\* report and the use cases written so far
JobConfigs == {"none", "running", "completedA", "completedB", "failed"}

ConfigStatus(c) ==
    CASE c = "none" -> "pending"
      [] c = "running" -> "running"
      [] c = "failed" -> "failed"
      [] OTHER -> "completed"

ConfigReport(c) ==
    CASE c \in {"running", "completedA"} ->
            Dict(ReportRow(<<"Acme makes anvils">>, <<"A", "B">>, <<"X">>))
      [] c = "completedB" -> Dict(ReportRow(<<"Acme makes anvils">>, <<"B", "C">>, <<>>))
      [] OTHER -> None

ConfigUseCases(c) ==
    CASE c = "completedA" -> <<UseCaseRow("Forecasting", "low", 9, 1),
                               UseCaseRow("Chatbot", "high", 6, 2),
                               UseCaseRow("Routing", "high", 8, 3)>>
      [] c = "completedB" -> <<UseCaseRow("Chatbot", "high", 7, 1)>>
      [] OTHER -> <<>>

\* the rows of a project whose i-th iteration has configuration cfgs[i]
HistoryIterations(cfgs) ==
    [i \in DOMAIN cfgs |->
        [IterationRow(i, i, IF i = 2 THEN <<"v2 - Focus on AI">> ELSE <<>>)
            EXCEPT !.status = ConfigStatus(cfgs[i])]]

HistoryJobs(cfgs) ==
    LET all == [i \in DOMAIN cfgs |->
                    [JobRow(i, "Acme Corp") EXCEPT !.status = ConfigStatus(cfgs[i]),
                                                   !.report = ConfigReport(cfgs[i]),
                                                   !.use_cases = ConfigUseCases(cfgs[i])]]
    IN  SelectIdx(all, {i \in DOMAIN cfgs : cfgs[i] # "none"}, 1)

WorkProductRow(starred, category, obj, source, at) ==
    [starred |-> starred, category |-> category, obj |-> obj,
     source_iteration |-> source, notes |-> <<"keep">>, created_at |-> at]

\* the work products and annotations of a project: none, or a starred play, a
\* starred insight, a play no longer starred, a starred play whose object is
\* gone, and one annotation
Bookmarks ==
    {[work_products |-> <<>>, annotations |-> <<>>],
     [work_products |->
        <<WorkProductRow(TRUE, "play",
                         Dict([title |-> <<"AI triage">>,
                               value_proposition |-> <<"faster answers">>,
                               elevator_pitch |-> <<"triage in seconds">>]),
                         IntVal(1), 1),
          WorkProductRow(TRUE, "insight", Dict([title |-> <<"churn">>]), None, 2),
          WorkProductRow(FALSE, "play", Dict([title |-> <<"old play">>]), IntVal(1), 3),
          WorkProductRow(TRUE, "play", None, None, 4)>>,
      annotations |-> <<[text |-> <<"call the CTO">>, created_at |-> 5]>>]}

InitContext ==
    /\ api_key = TRUE
    /\ job = [client_name |-> "Acme Corp", sales_history |-> "", prompt |-> "",
              status |-> "pending", result |-> <<>>, error |-> "", vertical |-> ""]
    /\ db = EmptyDb
    /\ mem = 0
    /\ state = InitialState(job)
    /\ pc = "context"
    /\ trace = <<>>
    /\ \E mode \in {"accumulate", "fresh"}, b \in Bookmarks :
         project = [NewProject("Acme Corp", mode) EXCEPT
                        !.work_products = b.work_products,
                        !.annotations = b.annotations]
    /\ \E n \in 1..MaxIterations : \E cfgs \in [1..n -> JobConfigs] :
         /\ iterations = HistoryIterations(cfgs)
         /\ jobs = HistoryJobs(cfgs)
    /\ req = <<>>
    /\ bundle = <<>>

\* one call of the accumulator, as recorded in bundle
ContextCall(op, it, out) == [op |-> op, target |-> it, out |-> out]

\* mutant of BuildContext: the call stores the bundle in the iteration's row
BuildContext_stores ==
    /\ pc = "context"
    /\ Len(bundle) < MaxContextCalls
    /\ \E i \in DOMAIN iterations :
         LET out == build_context(project, iterations, jobs, iterations[i])
         IN  /\ bundle' = Append(bundle, ContextCall("build_context", iterations[i], out))
             /\ iterations' = [iterations EXCEPT ![i].inherited_context = out]
    /\ UNCHANGED <<project, jobs, req>>
    /\ UNCHANGED runvars

\* accumulator.build_context(iteration) for a stored iteration
BuildContext ==
    /\ pc = "context"
    /\ Len(bundle) < MaxContextCalls
    /\ \E i \in DOMAIN iterations :
         bundle' = Append(bundle,
                          ContextCall("build_context", iterations[i],
                                      build_context(project, iterations, jobs,
                                                    iterations[i])))
    /\ UNCHANGED <<project, iterations, jobs, req>>
    /\ UNCHANGED runvars

\* accumulator.get_cumulative_context(iteration) for a stored iteration
GetCumulativeContext ==
    /\ pc = "context"
    /\ Len(bundle) < MaxContextCalls
    /\ \E i \in DOMAIN iterations :
         bundle' = Append(bundle,
                          ContextCall("get_cumulative_context", iterations[i],
                                      get_cumulative_context(project, iterations, jobs,
                                                             iterations[i])))
    /\ UNCHANGED <<project, iterations, jobs, req>>
    /\ UNCHANGED runvars

\* accumulator.build_context called again for the iteration of the call
\* before, no row having been written since
BuildContextAgain ==
    /\ pc = "context"
    /\ bundle # <<>>
    /\ \A k \in DOMAIN bundle : bundle[k].op = "build_context"
    /\ Len(bundle) < MaxBuilds
    /\ \E i \in DOMAIN iterations :
         /\ iterations[i].id = bundle[Len(bundle)].target.id
         /\ bundle' = Append(bundle,
                          ContextCall("build_context", iterations[i],
                                      build_context(project, iterations, jobs,
                                                    iterations[i])))
    /\ UNCHANGED <<project, iterations, jobs, req>>
    /\ UNCHANGED runvars

NextContext ==
    \/ BuildContext
    \/ GetCumulativeContext
    \/ BuildContextAgain

SpecContext == InitContext /\ [][NextContext]_vars

\* ------------------------------------------------- the iteration comparator
\* list(s) of a set s: its elements once each, in an order the set decides
ListOfSet(S) ==
    {q \in [1..Cardinality(S) -> S] : \A i, j \in DOMAIN q : q[i] = q[j] => i = j}

\* set(q) of a list q
SetOfList(q) == {q[i] : i \in DOMAIN q}

\* mutant of _diff_lists: added is the whole of list_b
_diff_lists_alladded(list_a, list_b) ==
    LET set_a == SetOfList(list_a)
        set_b == SetOfList(list_b)
    IN  {[added |-> x, removed |-> y, unchanged |-> z] :
            x \in ListOfSet(set_b), y \in ListOfSet(set_a \ set_b),
            z \in ListOfSet(set_a \cap set_b)}

\* mutant of _diff_lists: unchanged is the whole of list_a
_diff_lists_unchangeda(list_a, list_b) ==
    LET set_a == SetOfList(list_a)
        set_b == SetOfList(list_b)
    IN  {[added |-> x, removed |-> y, unchanged |-> z] :
            x \in ListOfSet(set_b \ set_a), y \in ListOfSet(set_a \ set_b),
            z \in ListOfSet(set_a)}

\* IterationComparator._diff_lists: the results it can return
_diff_lists(list_a, list_b) ==
    LET set_a == SetOfList(list_a)
        set_b == SetOfList(list_b)
    IN  {[added |-> x, removed |-> y, unchanged |-> z] :
            x \in ListOfSet(set_b \ set_a), y \in ListOfSet(set_a \ set_b),
            z \in ListOfSet(set_a \cap set_b)}

\* IterationComparator._get_pain_points, _get_opportunities, _get_talking_points
comparator_get(js, it, field) ==
    LET j == research_job(js, it)
    IN  IF ~Truthy(j) THEN <<>>
        ELSE IF ~Truthy(j.v.report) THEN <<>>
        ELSE OrEmptyList(j.v.report.v[field])

DiffedFields == {"pain_points", "opportunities", "talking_points"}

\* IterationComparator._compute_differences: the results it can return
_compute_differences(js, a, b) ==
    {[pain_points |-> p, opportunities |-> o, talking_points |-> t] :
        p \in _diff_lists(comparator_get(js, a, "pain_points"),
                          comparator_get(js, b, "pain_points")),
        o \in _diff_lists(comparator_get(js, a, "opportunities"),
                          comparator_get(js, b, "opportunities")),
        t \in _diff_lists(comparator_get(js, a, "talking_points"),
                          comparator_get(js, b, "talking_points"))}

\* IterationComparator._extract_iteration_data; the gap analysis and the
\* counts of personas and case studies are not among the rows kept here
_extract_iteration_data(js, it) ==
    LET j == research_job(js, it)
        data == [id |-> ToString(it.id), sequence |-> it.sequence,
                 name |-> IF it.name # <<>> THEN it.name
                          ELSE <<"Iteration ", ToString(it.sequence)>>,
                 status |-> it.status, created_at |-> isoformat(it.created_at)]
        keys == DOMAIN data
                \cup (IF Truthy(j) THEN {"research_job", "use_cases_count"} ELSE {})
                \cup (IF Truthy(j) /\ Truthy(j.v.report) THEN {"report"} ELSE {})
    IN  [k \in keys |->
            CASE k = "research_job" ->
                    Dict([client_name |-> j.v.client_name, status |-> j.v.status])
              [] k = "report" ->
                    Dict([company_overview |-> j.v.report.v.company_overview,
                          pain_points |-> j.v.report.v.pain_points,
                          opportunities |-> j.v.report.v.opportunities,
                          digital_maturity |-> j.v.report.v.digital_maturity,
                          ai_adoption_stage |-> j.v.report.v.ai_adoption_stage,
                          talking_points |-> j.v.report.v.talking_points,
                          decision_makers |-> j.v.report.v.decision_makers])
              [] k = "use_cases_count" -> IntVal(Len(j.v.use_cases))
              [] OTHER -> Dict([v |-> data[k]])]

\* IterationComparator.compare: the results it can return
compare(js, a, b) ==
    {[iteration_a |-> _extract_iteration_data(js, a),
      iteration_b |-> _extract_iteration_data(js, b),
      differences |-> d] : d \in _compute_differences(js, a, b)}

\* what a compared iteration has: no job, a job without report, or a job with
\* one of three reports
CompareConfigs == {"none", "noreport", "report1", "report2", "report3"}

CompareReport(c) ==
    CASE c = "report1" ->
            Dict([ReportRow(<<"Acme makes anvils">>, <<"slow onboarding">>, <<"upsell">>)
                    EXCEPT !.talking_points = <<>>])
      [] c = "report2" ->
            Dict([ReportRow(<<"Acme makes anvils">>,
                            <<"slow onboarding", "no analytics">>, <<>>)
                    EXCEPT !.talking_points = <<"mention the pilot">>])
      [] c = "report3" ->
            Dict([ReportRow(<<"Acme makes anvils and hammers">>,
                            <<"no analytics", "legacy ERP", "no analytics">>,
                            <<"upsell">>)
                    EXCEPT !.talking_points = <<"mention the pilot">>])
      [] OTHER -> None

ComparedIterations(cfgs) ==
    [i \in DOMAIN cfgs |->
        [IterationRow(i, i, <<>>) EXCEPT
            !.status = IF cfgs[i] = "none" THEN "pending" ELSE "completed"]]

ComparedJobs(cfgs) ==
    LET all == [i \in DOMAIN cfgs |->
                    [JobRow(i, "Acme Corp") EXCEPT !.status = "completed",
                                                   !.report = CompareReport(cfgs[i])]]
    IN  SelectIdx(all, {i \in DOMAIN cfgs : cfgs[i] # "none"}, 1)

InitCompare ==
    /\ api_key = TRUE
    /\ job = [client_name |-> "Acme Corp", sales_history |-> "", prompt |-> "",
              status |-> "pending", result |-> <<>>, error |-> "", vertical |-> ""]
    /\ db = EmptyDb
    /\ mem = 0
    /\ state = InitialState(job)
    /\ pc = "compare"
    /\ trace = <<>>
    /\ project = NewProject("Acme Corp", "accumulate")
    /\ \E n \in 2..MaxCompared : \E cfgs \in [1..n -> CompareConfigs] :
         /\ iterations = ComparedIterations(cfgs)
         /\ jobs = ComparedJobs(cfgs)
    /\ req = <<>>
    /\ bundle = <<>>

\* one call of the comparator, as recorded in bundle
CompareCall(a, b, out) == [op |-> "compare", a |-> a, b |-> b, out |-> out]

\* ProjectViewSet.compare for two stored iterations of the project
Compare ==
    /\ pc = "compare"
    /\ Len(bundle) < MaxCompares
    /\ \E a, b \in DOMAIN iterations :
         \E out \in compare(jobs, iterations[a], iterations[b]) :
            bundle' = Append(bundle, CompareCall(iterations[a], iterations[b], out))
    /\ UNCHANGED <<project, iterations, jobs, req>>
    /\ UNCHANGED runvars

NextCompare == Compare

SpecCompare == InitCompare /\ [][NextCompare]_vars

\* ------------------------------------------------ execute requests on a job
\* Requests to POST /api/research/<id>/execute/ for one job are served
\* concurrently; each statement that reads or writes the job's row is a step.
InitExecute ==
    /\ api_key = TRUE
    /\ job \in {[client_name |-> "Acme Corp", sales_history |-> "", prompt |-> "",
                  status |-> st, result |-> <<>>, error |-> "", vertical |-> ""] :
                    st \in {"pending", "running", "completed", "failed"}}
    /\ db = EmptyDb
    /\ mem = 0
    /\ state = InitialState(job)
    /\ pc = "execute"
    /\ trace = <<>>
    /\ project = NewProject("Acme Corp", "accumulate")
    /\ iterations = <<>>
    /\ jobs = <<>>
    /\ req = <<>>
    /\ bundle = <<>>

\* one call of run_research_sync, as recorded in trace: the request that made
\* it and the job's status in the table when it was made
RunCall(r, before) == [stage |-> "run_research_sync", by |-> r, before |-> before]

\* ResearchJobExecuteView.post: ResearchJob.objects.get, then the check of
\* job.status on the object read (400 when it is not pending or failed)
ExecutePost ==
    /\ pc = "execute"
    /\ Len(req) < MaxRequests
    /\ req' = Append(req, Request("execute",
                                  IF job.status \notin {"pending", "failed"}
                                  THEN "rejected" ELSE "run",
                                  None))
    /\ UNCHANGED <<project, iterations, jobs, bundle>>
    /\ UNCHANGED runvars

\* run_research_sync: job.status = 'running'; job.save(); the workflow is
\* invoked
ExecuteRunBegin(r) ==
    /\ req[r].kind = "execute" /\ req[r].pc = "run"
    /\ trace' = Append(trace, RunCall(r, job.status))
    /\ job' = [job EXCEPT !.status = "running"]
    /\ req' = [req EXCEPT ![r].pc = "invoke"]
    /\ UNCHANGED <<api_key, db, mem, state, pc>>
    /\ UNCHANGED <<project, iterations, jobs, bundle>>

\* run_research_sync: the workflow has returned or raised; the job gets its
\* terminal status
ExecuteRunEnd(r) ==
    /\ req[r].kind = "execute" /\ req[r].pc = "invoke"
    /\ \E o \in RunOutcomes :
         /\ job' = [job EXCEPT !.status = o.status]
         /\ db' = [db EXCEPT !.report = IF o.report # None THEN o.report ELSE @]
    /\ req' = [req EXCEPT ![r].pc = "respond"]
    /\ UNCHANGED <<api_key, mem, state, pc, trace>>
    /\ UNCHANGED <<project, iterations, jobs, bundle>>

\* ResearchJobExecuteView.post: job.refresh_from_db(); the response
ExecuteRespond(r) ==
    /\ req[r].kind = "execute" /\ req[r].pc = "respond"
    /\ req' = [req EXCEPT ![r].pc = "done"]
    /\ UNCHANGED <<project, iterations, jobs, bundle>>
    /\ UNCHANGED runvars

NextExecute ==
    \/ ExecutePost
    \/ \E r \in DOMAIN req :
         \/ ExecuteRunBegin(r)
         \/ ExecuteRunEnd(r)
         \/ ExecuteRespond(r)

SpecExecute == InitExecute /\ [][NextExecute]_vars

\* ================================================================ claims
\* the run has returned from research_workflow.invoke
Ended == pc \in {"END", "done"}

\* the calls of one stage function recorded in trace
CallsOf(stage) == {i \in 1..Len(trace) : trace[i].stage = stage}

ResearchSucceeded ==
    \E i \in CallsOf("research") : trace[i].out.status # "failed"

\* C1: a run started with an empty client_name, or with no oracle credential
\* configured, has its validate stage return status failed with a non-empty
\* error, and ends there with no oracle call and no persistence write.
C1_ValidateRejects ==
    (job.client_name = "" \/ ~api_key) =>
        /\ \A i \in CallsOf("validate") :
              /\ trace[i].out.status = "failed"
              /\ trace[i].out.error # ""
              /\ i = Len(trace)
              /\ Ended
        /\ \A i \in 1..Len(trace) : trace[i].calls = 0 /\ trace[i].w = 0
        /\ db = EmptyDb
        /\ mem = 0

C1_Witness ==
    /\ pc = "done"
    /\ ~api_key
    /\ job.client_name # ""
    /\ trace # <<>>
    /\ trace[1].stage = "validate"
    /\ state.error = "Gemini API key is not configured"

\* C2: when validate or research returns status failed the run ends at that
\* call: it is the last stage call of the run and the state the run returns is
\* the state that call returned.
C2_FatalStops ==
    \A i \in CallsOf("validate") \cup CallsOf("research") :
        trace[i].out.status = "failed" =>
            /\ i = Len(trace)
            /\ Ended
            /\ state = trace[i].out

C2_Witness ==
    /\ pc = "done"
    /\ Len(trace) = 2
    /\ trace[2].stage = "research"
    /\ trace[2].out.status = "failed"

\* C3: when the oracle call of the research stage raises, the stage returns
\* status failed with error equal to the exception's text, and research_report
\* is still None and result still empty.
C3_ResearchRaises ==
    \A i \in CallsOf("research") :
        trace[i].resp.kind = "raise" =>
            /\ trace[i].out.status = "failed"
            /\ trace[i].out.error = trace[i].resp.msg
            /\ trace[i].out.research_report = None
            /\ trace[i].out.result = <<>>

C3_Witness ==
    \E i \in CallsOf("research") :
        /\ trace[i].resp = Raise("quota exceeded")
        /\ trace[i].calls = 1
        /\ trace[i].out.error = "quota exceeded"

\* the classification call gave no known vertical: it raised, had no text, or
\* its text is not the name of a vertical
ClassifyFailed(resp) ==
    \/ resp.kind \in {"raise", "null"}
    \/ /\ resp.kind = "text"
       /\ \A k \in 1..Len(resp.lines) :
             \/ resp.lines[k].t # "word"
             \/ Lower(resp.lines[k].w) \notin valid_verticals

\* C4: once research has succeeded, whatever the oracle does in classify,
\* competitor_search and gap_analysis, the run ends with status completed and
\* an empty error, with vertical "other" when classify failed and
\* competitor_case_studies [] when competitor_search failed.
C4_EnrichmentDegrades ==
    (Ended /\ ResearchSucceeded) =>
        /\ state.status = "completed"
        /\ state.error = ""
        /\ \A i \in CallsOf("classify") :
              ClassifyFailed(trace[i].resp) => state.vertical = Str("other")
        /\ \A i \in CallsOf("competitor_search") :
              OracleFailed(trace[i].resp) => state.competitor_case_studies = List(<<>>)
        /\ CallsOf("classify") # {}
        /\ CallsOf("competitor_search") # {}
        /\ CallsOf("gap_analysis") # {}

C4_Witness ==
    /\ pc = "done"
    /\ \E i \in CallsOf("classify") : trace[i].resp = Text(<<Junk>>)
    /\ \E i \in CallsOf("competitor_search") : trace[i].resp.kind = "raise"
    /\ \E i \in CallsOf("gap_analysis") : trace[i].resp.kind = "raise"
    /\ state.status = "completed"
    /\ state.vertical = Str("other")

\* the payload a stage call of gap_analysis or internal_ops returned
PayloadOf(c) ==
    IF c.stage = "gap_analysis" THEN c.out.gap_analysis ELSE c.out.internal_ops

\* C5 as stated: when the oracle call of gap_analysis or internal_ops fails,
\* the stage returns its payload equal to None and a status that is not failed.
C5_PayloadNoneOnFailure ==
    \A i \in CallsOf("gap_analysis") \cup CallsOf("internal_ops") :
        (trace[i].calls = 1 /\ trace[i].resp.kind = "raise") =>
            /\ PayloadOf(trace[i]) = None
            /\ trace[i].out.status # "failed"

\* C5 as amended: when the oracle call of gap_analysis or internal_ops fails
\* (it raises, returns no text, or returns text that is not a JSON object), the
\* stage returns its payload equal to the service's fallback record (every list
\* empty, confidence 0, analysis_notes naming the failure), not None, with a
\* status that is not failed.
C5_FallbackOnFailure ==
    \A i \in CallsOf("gap_analysis") \cup CallsOf("internal_ops") :
        LET c == trace[i]
            pl == PayloadOf(c)
        IN  (c.calls = 1 /\ OracleFailed(c.resp)) =>
                  /\ pl # None
                  /\ pl.k = "dict"
                  /\ pl.v.confidence_score = 0
                  /\ pl.v.analysis_notes # <<>>
                  /\ c.stage = "gap_analysis" =>
                        /\ pl.v = GapFallback(pl.v.analysis_notes)
                        /\ c.out.status = "completed"
                  /\ c.stage = "internal_ops" =>
                        /\ pl.v = OpsFallback(pl.v.analysis_notes)
                        /\ pl.v.key_insights = <<>>
                        /\ c.out.status = c.in.status
                  /\ c.out.status # "failed"

C5_Witness ==
    /\ \E i \in CallsOf("gap_analysis") :
          /\ trace[i].resp = Raise("timeout")
          /\ trace[i].calls = 1
          /\ trace[i].out.gap_analysis = Dict(GapFallback(<<"Analysis failed: ", "timeout">>))

\* C6: when correlate runs on a state that is not failed and in which
\* gap_analysis or internal_ops is None, it returns gap_correlations = [] and
\* status completed and makes no oracle call.
C6_CorrelateSkips ==
    \A i \in CallsOf("correlate") :
        (/\ trace[i].in.status # "failed"
         /\ \/ StateGet(trace[i].in.gap_analysis) = None
            \/ StateGet(trace[i].in.internal_ops) = None) =>
            /\ trace[i].out.gap_correlations = List(<<>>)
            /\ trace[i].out.status = "completed"
            /\ trace[i].calls = 0

C6_Witness ==
    \E i \in CallsOf("correlate") :
        /\ trace[i].in.status = "gap_analysis"
        /\ trace[i].in.gap_analysis = None
        /\ trace[i].in.internal_ops.k = "dict"
        /\ trace[i].in.gap_correlations = Absent
        /\ trace[i].out.gap_correlations = List(<<>>)

StageNames == [i \in 1..Len(trace) |-> trace[i].stage]

\* C7: in a run whose research stage succeeds the stages are invoked in the
\* order classify, competitor_search, gap_analysis, internal_ops, correlate,
\* finalize, and the state the run returns carries an internal_ops value and a
\* gap_correlations list.
C7_StageOrder ==
    (Ended /\ ResearchSucceeded) =>
        /\ StageNames = <<"validate", "research", "classify", "competitor_search",
                          "gap_analysis", "internal_ops", "correlate", "finalize">>
        /\ state.internal_ops # Absent
        /\ state.gap_correlations.k = "list"

\* C8: every stage function other than validate, called with a state whose
\* status is failed, returns a state equal to its input in every field and
\* makes no oracle call and no persistence write.
C8_FailedPassThrough ==
    \A i \in 1..Len(trace) :
        (trace[i].stage # "validate" /\ trace[i].in.status = "failed") =>
            /\ trace[i].out = trace[i].in
            /\ trace[i].calls = 0
            /\ trace[i].w = 0

C8_Witness ==
    \E i \in CallsOf("finalize") :
        /\ trace[i].in.status = "failed"
        /\ trace[i].in.job_id = JobId
        /\ trace[i].in.internal_ops.k = "dict"
        /\ db = EmptyDb

\* C9: a run that returns, returns a state whose status is completed or failed.
C9_TerminalStatus ==
    Ended => state.status \in {"completed", "failed"}

C9_Witness ==
    /\ pc = "done"
    /\ state.status = "completed"
    /\ Len(trace) = 6

\* C10: in every state a stage produces during a run, error is non-empty only
\* if status is failed; a run that ends completed has an empty error, however
\* many enrichment stages degraded.
C10_ErrorOnlyWhenFailed ==
    /\ \A i \in 1..Len(trace) :
          trace[i].out.error # "" => trace[i].out.status = "failed"
    /\ state.error # "" => state.status = "failed"
    /\ (Ended /\ state.status = "completed") => state.error = ""

C10_Witness ==
    /\ pc = "done"
    /\ state.status = "completed"
    /\ state.error = ""
    /\ \E i \in CallsOf("gap_analysis") : trace[i].resp = Raise("timeout")
    /\ \E i \in CallsOf("classify") : trace[i].resp.kind = "raise"

\* ---------------------------------------------------------------- C11
\* C11: whatever raises inside finalize (loading the job, a persistence write,
\* the memory capture), finalize called on a state that is not failed returns
\* that state with status completed and every other field, the payloads among
\* them, unchanged.
C11_FinalizeNeverFails ==
    \A i \in CallsOf("finalize") :
        trace[i].in.status # "failed" =>
            trace[i].out = [trace[i].in EXCEPT !.status = "completed"]

\* a finalize call whose report write did not happen although the state holds
\* a report: an exception was raised at or before that write
C11_Witness ==
    \E i \in CallsOf("finalize") :
        /\ trace[i].in.status # "failed"
        /\ trace[i].in.job_id # ""
        /\ Truthy(ReportOf(trace[i].in))
        /\ db.report = None
        /\ trace[i].out.status = "completed"
        /\ trace[i].out.research_report = trace[i].in.research_report

\* ---------------------------------------------------------------- C12
\* the case studies of a state, as finalize_result reads them
StudiesOf(s) == StateGetD(s.competitor_case_studies, List(<<>>))

\* the payload fields of a state
PayloadsOf(s) ==
    Payloads(s.research_report, s.vertical, s.competitor_case_studies,
             s.gap_analysis, s.internal_ops, s.gap_correlations)

\* two finalize calls on the same job_id and payloads have both run to the end
\* of the try block (each did its memory capture)
FinalizedTwice ==
    /\ Len(trace) = 2
    /\ trace[1].stage = "finalize" /\ trace[2].stage = "finalize"
    /\ trace[1].in.job_id = trace[2].in.job_id
    /\ PayloadsOf(trace[1].in) = PayloadsOf(trace[2].in)
    /\ mem = 2

\* C12: after finalize has run twice with the same job_id and the same
\* payloads the tables hold what one run leaves: the report, gap-analysis and
\* internal-ops rows written from the payloads, and as many case-study rows as
\* the payload has case studies.
C12_FinalizeIdempotent ==
    FinalizedTwice =>
        /\ db.report = (IF Truthy(ReportOf(trace[1].in))
                        THEN Dict(ResearchReportData(ReportOf(trace[1].in).v))
                        ELSE None)
        /\ db.case_studies = StudiesOf(trace[1].in).v

\* ---------------------------------------------------------------- C13
\* C13: once the caller has recorded the end of the run, the job's status and
\* the status of the iteration that started the run both equal the status of
\* the final workflow state, completed or failed.
C13_StatusMirrorsPipeline ==
    pc = "done" =>
        /\ state.status \in {"completed", "failed"}
        /\ job.status = state.status
        /\ \A i \in DOMAIN iterations : iterations[i].status = state.status

\* ---------------------------------------------------------------- C14
\* C14: whatever the interleaving of the creation requests of a project, no
\* two stored iterations hold the same sequence, and an iteration stored while
\* the largest stored sequence is m (0 when there is none) is stored with
\* sequence m + 1: the rows, in the order of their insertion, hold 1, 2, 3, ...
C14_SequenceUnique ==
    /\ \A i, j \in DOMAIN iterations :
          iterations[i].sequence = iterations[j].sequence => i = j
    /\ \A i \in DOMAIN iterations : iterations[i].sequence = i

\* two creation requests read the same largest sequence; one stored its
\* iteration and the other was turned down by the unique constraint
C14_Witness ==
    \E r1, r2 \in Requests("create") :
        /\ r1 # r2
        /\ req[r1].it.sequence = req[r2].it.sequence
        /\ req[r1].pc \in {"context", "done"}
        /\ req[r2].pc = "error"
        /\ Len(iterations) >= 1

\* ---------------------------------------------------------------- C15
\* the start request has gone past the creation of its research job
Running(r) == req[r].pc \in {"mark", "run", "invoke", "finish", "done"}

ContextCalls(ops) == {i \in DOMAIN bundle : bundle[i].op \in ops}

\* some iteration before the target has a report, and the project has a
\* starred play and an annotation
RichHistory(target) ==
    /\ \E i \in DOMAIN iterations :
          /\ iterations[i].sequence < target.sequence
          /\ _get_pain_points(jobs, iterations[i]) # <<>>
    /\ _get_starred_plays(project) # <<>>
    /\ _get_annotations(project) # <<>>

\* C16: in a project whose context_mode is fresh, build_context and
\* get_cumulative_context return the empty bundle for every iteration,
\* whatever the project holds.
C16_FreshIsEmpty ==
    \A i \in ContextCalls({"build_context", "get_cumulative_context"}) :
        project.context_mode = "fresh" => bundle[i].out = EmptyDict

\* a cumulative call in a fresh project with reports, plays and annotations
C16_Witness ==
    \E i \in ContextCalls({"get_cumulative_context"}) :
        /\ project.context_mode = "fresh"
        /\ RichHistory(bundle[i].target)
        /\ bundle[i].out = EmptyDict

\* ---------------------------------------------------------------- C17
\* the stored iterations of smaller sequence than the target's
Earlier(target) ==
    {i \in DOMAIN iterations : iterations[i].sequence < target.sequence}

\* C17: build_context for an iteration with no iteration of smaller sequence
\* in its project returns the empty bundle, also when the project has starred
\* plays or annotations.
C17_FirstIsEmpty ==
    \A i \in ContextCalls({"build_context"}) :
        Earlier(bundle[i].target) = {} => bundle[i].out = EmptyDict

\* build_context for iteration 1 of an accumulating project that has a starred
\* play and an annotation
C17_Witness ==
    \E i \in ContextCalls({"build_context"}) :
        /\ project.context_mode = "accumulate"
        /\ bundle[i].target.sequence = 1
        /\ Earlier(bundle[i].target) = {}
        /\ _get_starred_plays(project) # <<>>
        /\ _get_annotations(project) # <<>>
        /\ bundle[i].out = EmptyDict

\* ---------------------------------------------------------------- C18
\* the iteration of largest sequence below the target's
Preceding(target) ==
    iterations[CHOOSE i \in Earlier(target) :
                  \A j \in Earlier(target) : iterations[j].sequence <= iterations[i].sequence]

\* C18: build_context returns the empty bundle whenever the iteration
\* preceding the target has no research job in status completed: no job, or a
\* job that is pending, running or failed.
C18_OnlyCompletedRuns ==
    \A i \in ContextCalls({"build_context"}) :
        (/\ Earlier(bundle[i].target) # {}
         /\ LET j == research_job(jobs, Preceding(bundle[i].target))
            IN  ~Truthy(j) \/ j.v.status # "completed")
        => bundle[i].out = EmptyDict

\* ---------------------------------------------------------------- C19
\* C19: no bundle returned by build_context or get_cumulative_context has a
\* key whose value is empty (None, an empty list or dict, an empty string,
\* zero).
C19_NoEmptyValue ==
    \A i \in ContextCalls({"build_context", "get_cumulative_context"}) :
        \A k \in DOMAIN bundle[i].out : Truthy(bundle[i].out[k])

\* a bundle that has pain points and no opportunities key, the preceding
\* iteration's report having listed none
C19_Witness ==
    \E i \in ContextCalls({"build_context"}) :
        /\ Earlier(bundle[i].target) # {}
        /\ _get_opportunities(jobs, Preceding(bundle[i].target)) = <<>>
        /\ "identified_pain_points" \in DOMAIN bundle[i].out
        /\ "identified_opportunities" \notin DOMAIN bundle[i].out

\* ---------------------------------------------------------------- C20
\* the pain points (opportunities) of the iterations before the target, one
\* list after the other in increasing sequence
RECURSIVE ConcatUpTo(_, _, _)
ConcatUpTo(field, n, target) ==
    IF n = 0 THEN <<>>
    ELSE ConcatUpTo(field, n - 1, target)
         \o (IF \E i \in Earlier(target) : iterations[i].sequence = n
             THEN LET it == iterations[CHOOSE i \in Earlier(target) :
                                          iterations[i].sequence = n]
                  IN  IF field = "pain_points" THEN _get_pain_points(jobs, it)
                      ELSE _get_opportunities(jobs, it)
             ELSE <<>>)

\* position of the first occurrence of x in q
FirstAt(x, q) == CHOOSE i \in DOMAIN q : q[i] = x /\ \A j \in 1..(i - 1) : q[j] # x

\* got is all with every element removed after its first occurrence
FirstSeen(got, all) ==
    /\ \A i, j \in DOMAIN got : got[i] = got[j] => i = j
    /\ {got[i] : i \in DOMAIN got} = {all[i] : i \in DOMAIN all}
    /\ \A i, j \in DOMAIN got : i < j => FirstAt(got[i], all) < FirstAt(got[j], all)

\* the list under key of a bundle, empty when the key was dropped
ListAt(out, key) == IF key \in DOMAIN out THEN out[key].v ELSE <<>>

\* C20: in an accumulating project, cumulative_pain_points and
\* cumulative_opportunities of get_cumulative_context are the lists of the
\* prior iterations concatenated in increasing sequence with every string
\* removed after its first occurrence: no duplicates, first-seen order, every
\* string of every prior iteration present.
C20_CumulativeDedup ==
    \A i \in ContextCalls({"get_cumulative_context"}) :
        project.context_mode = "accumulate" =>
            /\ FirstSeen(ListAt(bundle[i].out, "cumulative_pain_points"),
                         ConcatUpTo("pain_points", bundle[i].target.sequence - 1,
                                    bundle[i].target))
            /\ FirstSeen(ListAt(bundle[i].out, "cumulative_opportunities"),
                         ConcatUpTo("opportunities", bundle[i].target.sequence - 1,
                                    bundle[i].target))

\* the prior iterations list A, B and then B, C: the bundle has A, B, C
C20_Witness ==
    \E i \in ContextCalls({"get_cumulative_context"}) :
        /\ project.context_mode = "accumulate"
        /\ ConcatUpTo("pain_points", bundle[i].target.sequence - 1, bundle[i].target)
               = <<"A", "B", "B", "C">>
        /\ ListAt(bundle[i].out, "cumulative_pain_points") = <<"A", "B", "C">>

\* ---------------------------------------------------------------- C21
\* the use cases collected from the stored iteration of sequence n
CollectedAt(n) ==
    IF \E i \in DOMAIN iterations : iterations[i].sequence = n
    THEN _get_use_cases(jobs, iterations[CHOOSE i \in DOMAIN iterations :
                                            iterations[i].sequence = n])
    ELSE <<>>

\* the titles collected from the stored iteration of sequence n
TitlesAt(n) == {CollectedAt(n)[k].title : k \in DOMAIN CollectedAt(n)}

\* C21: in an accumulating project, cumulative_use_cases of
\* get_cumulative_context has at most one use case per title, has every title
\* collected from a prior iteration, and the use case kept for a title is one
\* collected from the prior iteration of lowest sequence that has that title
\* among its collected use cases.
C21_UseCasesFirstWins ==
    \A i \in ContextCalls({"get_cumulative_context"}) :
        project.context_mode = "accumulate" =>
            LET got == ListAt(bundle[i].out, "cumulative_use_cases")
                prior == 1..(bundle[i].target.sequence - 1)
            IN  /\ \A a, b \in DOMAIN got : got[a].title = got[b].title => a = b
                /\ {got[a].title : a \in DOMAIN got} = UNION {TitlesAt(n) : n \in prior}
                /\ \A a \in DOMAIN got :
                      \E n \in prior :
                          /\ \E k \in DOMAIN CollectedAt(n) : CollectedAt(n)[k] = got[a]
                          /\ \A m \in 1..(n - 1) : got[a].title \notin TitlesAt(m)

\* two prior iterations have a use case of the same title with different
\* scores; the bundle keeps the one of the earlier iteration
C21_Witness ==
    \E i \in ContextCalls({"get_cumulative_context"}) :
        /\ project.context_mode = "accumulate"
        /\ \E m, n \in 1..(bundle[i].target.sequence - 1) :
              /\ m < n
              /\ \E a \in DOMAIN CollectedAt(m), b \in DOMAIN CollectedAt(n) :
                    /\ CollectedAt(m)[a].title = CollectedAt(n)[b].title
                    /\ CollectedAt(m)[a] # CollectedAt(n)[b]
                    /\ \A l \in 1..(m - 1) : CollectedAt(m)[a].title \notin TitlesAt(l)
                    /\ \E g \in DOMAIN ListAt(bundle[i].out, "cumulative_use_cases") :
                          ListAt(bundle[i].out, "cumulative_use_cases")[g] = CollectedAt(m)[a]

ListOf(it, field) == comparator_get(jobs, it, field)

\* C23: for each of pain_points, opportunities and talking_points, compare(A, B)
\* returns as added the strings of B's list that are not in A's, as removed
\* those of A's list not in B's and as unchanged those in both; each of the
\* three lists has no duplicates, they are pairwise disjoint, and together
\* they hold exactly the strings of the two lists.
C23_DiffLists ==
    \A i \in ContextCalls({"compare"}) : \A f \in DiffedFields :
        LET d == bundle[i].out.differences[f]
            A == SetOfList(ListOf(bundle[i].a, f))
            B == SetOfList(ListOf(bundle[i].b, f))
        IN  /\ SetOfList(d.added) = B \ A
            /\ SetOfList(d.removed) = A \ B
            /\ SetOfList(d.unchanged) = A \cap B
            /\ \A q \in {d.added, d.removed, d.unchanged} :
                  \A m, n \in DOMAIN q : q[m] = q[n] => m = n
            /\ SetOfList(d.added) \cap SetOfList(d.removed) = {}
            /\ SetOfList(d.added) \cap SetOfList(d.unchanged) = {}
            /\ SetOfList(d.removed) \cap SetOfList(d.unchanged) = {}
            /\ SetOfList(d.added) \cup SetOfList(d.removed) \cup SetOfList(d.unchanged)
                  = A \cup B

\* iteration 1 lists slow onboarding, iteration 2 slow onboarding and no
\* analytics: the second is added, nothing is removed, the first is unchanged
C23_Witness ==
    \E i \in ContextCalls({"compare"}) :
        /\ ListOf(bundle[i].a, "pain_points") = <<"slow onboarding">>
        /\ ListOf(bundle[i].b, "pain_points") = <<"slow onboarding", "no analytics">>
        /\ bundle[i].out.differences.pain_points
              = [added |-> <<"no analytics">>, removed |-> <<>>,
                 unchanged |-> <<"slow onboarding">>]

\* ---------------------------------------------------------------- C24
\* C24: for two compared iterations X and Y and each diffed field, the added
\* of compare(X, Y) and the removed of compare(Y, X) hold the same strings,
\* and so do the unchanged of the two calls.
C24_DiffSymmetric ==
    \A i, j \in ContextCalls({"compare"}) :
        (bundle[i].a = bundle[j].b /\ bundle[i].b = bundle[j].a) =>
            \A f \in DiffedFields :
                /\ SetOfList(bundle[i].out.differences[f].added)
                      = SetOfList(bundle[j].out.differences[f].removed)
                /\ SetOfList(bundle[i].out.differences[f].unchanged)
                      = SetOfList(bundle[j].out.differences[f].unchanged)

\* compare(X, Y) and compare(Y, X) were both made for two iterations whose
\* pain points differ both ways
C24_Witness ==
    \E i, j \in ContextCalls({"compare"}) :
        /\ i # j
        /\ bundle[i].a = bundle[j].b /\ bundle[i].b = bundle[j].a
        /\ bundle[i].a # bundle[i].b
        /\ bundle[i].out.differences.pain_points.added # <<>>
        /\ bundle[i].out.differences.pain_points.removed # <<>>
        /\ bundle[i].out.differences.pain_points.unchanged # <<>>
        /\ bundle[j].out.differences.pain_points.removed # <<>>

\* ---------------------------------------------------------------- C25
\* the oracle call raised, or its text is not JSON, or its JSON is not an
\* object
ServiceFailed(resp) ==
    \/ resp.kind = "raise"
    \/ /\ resp.kind = "text"
       /\ LET p == Extract(resp.lines) IN ~p.ok \/ ~IsDict(p.v)

\* the stages whose service calls the oracle and has a fallback record
OracleStages ==
    {"research", "competitor_search", "gap_analysis", "internal_ops", "correlate"}

\* the stage call c got the zero-value record of its service back
ZeroValue(c) ==
    CASE c.stage = "research" ->
            /\ c.out.status # "failed"
            /\ c.out.research_report # None
            /\ c.out.research_report.v.pain_points = <<>>
            /\ c.out.research_report.v.opportunities = <<>>
            /\ c.out.research_report.v.talking_points = <<>>
      [] c.stage = "competitor_search" -> c.out.competitor_case_studies = List(<<>>)
      [] c.stage = "gap_analysis" ->
            /\ c.out.gap_analysis # None
            /\ c.out.gap_analysis.v = GapFallback(c.out.gap_analysis.v.analysis_notes)
      [] c.stage = "internal_ops" ->
            /\ c.out.internal_ops # None
            /\ c.out.internal_ops.v = InternalOpsData(
                    [analysis_notes |-> c.out.internal_ops.v.analysis_notes])
            /\ c.out.internal_ops.v.key_insights = <<>>
      [] c.stage = "correlate" -> c.out.gap_correlations = List(<<>>)

StatusRank(st) ==
    CASE st = "pending" -> 0
      [] st = "researching" -> 1
      [] st = "classifying" -> 2
      [] st = "competitor_search" -> 3
      [] st = "gap_analysis" -> 4
      [] st = "completed" -> 5
      [] st = "failed" -> 6

\* C26: within one run every step leaves the state's status as it is, moves it
\* forward in the order pending, researching, classifying, competitor_search,
\* gap_analysis, completed, or moves it to failed; it never goes back, and once
\* it is completed or failed no later step changes it.
C26_StatusForward ==
    [][/\ state.status \in {"completed", "failed"} => state'.status = state.status
       /\ StatusRank(state'.status) >= StatusRank(state.status)]_vars

\* a finished run whose status went through every value up to completed and
\* stayed completed through finalize
C26_Witness ==
    /\ pc = "done"
    /\ Len(trace) = 6
    /\ [i \in 1..6 |-> trace[i].out.status]
         = <<"researching", "classifying", "competitor_search", "gap_analysis",
             "completed", "completed">>
    /\ trace[1].in.status = "pending"
    /\ state.status = "completed"

\* ---------------------------------------------------------------- C27
\* the output fields of each stage
OwnFields(stage) ==
    CASE stage = "research" -> {"result", "research_report"}
      [] stage = "classify" -> {"vertical"}
      [] stage = "competitor_search" -> {"competitor_case_studies"}
      [] stage = "gap_analysis" -> {"gap_analysis"}
      [] stage = "internal_ops" -> {"internal_ops"}
      [] stage = "correlate" -> {"gap_correlations"}
      [] OTHER -> {}

\* C27: the state a stage function returns differs from the state it was
\* called on in no field other than status, error and the stage's
\* own output fields (research: result and research_report; classify: vertical;
\* competitor_search: competitor_case_studies; gap_analysis: gap_analysis;
\* internal_ops: internal_ops; correlate: gap_correlations; validate and
\* finalize: none).
C27_StageFrame ==
    \A i \in DOMAIN trace :
        LET c == trace[i]
        IN  \A f \in DOMAIN c.in \ ({"status", "error"} \cup OwnFields(c.stage)) :
                c.out[f] = c.in[f]

\* a research call that changed result and research_report next to a vertical
\* and case studies it left alone
C27_Witness ==
    \E i \in CallsOf("research") :
        /\ trace[i].out.research_report # trace[i].in.research_report
        /\ trace[i].out.result # trace[i].in.result
        /\ trace[i].in.vertical = Str("technology")
        /\ trace[i].out.vertical = Str("technology")
        /\ trace[i].in.competitor_case_studies = OneStudy
        /\ trace[i].out.competitor_case_studies = OneStudy

\* ---------------------------------------------------------------- C28
\* finalize calls that loaded the job of a state that is not failed
Persisting ==
    {i \in CallsOf("finalize") :
        /\ trace[i].in.status # "failed"
        /\ trace[i].in.job_id = JobId
        /\ trace[i].resp.fail # 1}

\* C28: in a finalize call that loaded the job, each of the report, the case
\* studies, the gap analysis and the internal-ops record that the state holds
\* is in its table afterwards unless its own write raised, whatever the other
\* payloads are and whichever other write raised; and the call returns
\* completed.
C28_WritesIndependent ==
    \A i \in Persisting :
        LET s == trace[i].in
            fail == trace[i].resp.fail
        IN  (i = Len(trace)) =>
              /\ (Truthy(ReportOf(s)) /\ fail # 3) => db.report # None
              /\ (Truthy(StudiesOf(s)) /\ StudiesOf(s).k = "list" /\ fail # 4)
                    => db.case_studies # <<>>
              /\ (Truthy(StateGet(s.gap_analysis)) /\ fail # 5) => db.gap # None
              /\ (Truthy(StateGet(s.internal_ops)) /\ fail # 6) => db.ops # None
              /\ trace[i].out.status = "completed"

\* ---------------------------------------------------------------- C29
\* no stage function has been invoked twice in the run
StagesOnce == \A i, j \in DOMAIN trace : trace[i].stage = trace[j].stage => i = j

\* run_research_sync has returned: the workflow's state and the job both have
\* a terminal status
RunReturned ==
    /\ pc = "done"
    /\ state.status \in {"completed", "failed"}
    /\ job.status \in {"completed", "failed"}

\* an upper bound on the steps a run has left at each place of the workflow
StepsLeft(at) ==
    CASE at = "idle" -> 8
      [] at = "validate" -> 7
      [] at = "research" -> 6
      [] at = "classify" -> 5
      [] at = "competitors" -> 4
      [] at = "gap_analysis" -> 3
      [] at = "finalize" -> 2
      [] at = "END" -> 1
      [] at = "done" -> 0

\* C29: when every oracle and persistence call returns or raises, every run
\* that was started returns with a terminal status: each step takes the run to
\* a place with fewer steps left, a started run that has not returned always
\* has a next step, and a run that has no step left has returned with status
\* completed or failed; during the run each stage is invoked at most once, so
\* no stage is re-entered or retried.
C29_RunTerminates ==
    /\ [](/\ StagesOnce
          /\ (pc \notin {"idle", "done"}) => ENABLED Next
          /\ pc = "done" => RunReturned)
    /\ [][StepsLeft(pc') < StepsLeft(pc)]_vars

\* a run that returned after each of the six wired stages was invoked once
C29_Witness ==
    /\ RunReturned
    /\ StageNames = <<"validate", "research", "classify", "competitor_search",
                      "gap_analysis", "finalize">>

\* ---------------------------------------------------------------- C30
\* the execute requests whose workflow is running
InPipeline == {r \in DOMAIN req : req[r].kind = "execute" /\ req[r].pc = "invoke"}

\* C30: whatever the interleaving of the execute requests on one job, at most
\* one request runs the pipeline at a time, every run starts on a job whose
\* status in the table is pending or failed, and a rejected request has made
\* no run.
C30_OneRunAtATime ==
    /\ Cardinality(InPipeline) <= 1
    /\ \A i \in DOMAIN trace :
          /\ trace[i].before \in {"pending", "failed"}
          /\ req[trace[i].by].pc # "rejected"
====
